---- MODULE Spec2Model ----
(***************************************************************************)
(* Verification model of smartclone-integration:                           *)
(*   - MultiElasticResourceAllocation.selectOptimalTechnology (selector)   *)
(*   - SmartCloneIntegration.initializeAI (integration facade)             *)
(*   - encryptedHybridStorage (hybrid storage engine and connectors)       *)
(***************************************************************************)
EXTENDS Integers, Sequences, FiniteSets, TLC

(***************************************************************************)
(* Bounds of the model.                                                    *)
(***************************************************************************)
\* number of selectOptimalTechnology / initializeAI calls explored
MaxCalls == 2
\* longest fallback list of a recommendation handed over by a stubbed selector
MaxFallbacks == 2
MaxStores == 2
MaxSyncStores == 1
MaxSyncs == 1
\* highest priority rank given to calculateConfidence
MaxRank == 8
\* calls made on one SmartClone object
MaxFacadeCalls == 3

(***************************************************************************)
(* Selector configuration.                                                 *)
(***************************************************************************)
NoBenchmark == -1

technologyStack ==
  [ transformers |->
      [ priority |-> 1, requires |-> {"webassembly"},
        models |-> <<"Xenova/gpt2", "Xenova/distilgpt2">>,
        capabilities |-> {"text-generation", "conversation"} ],
    webllm |->
      [ priority |-> 2, requires |-> {"webgpu"},
        models |-> <<"Llama-3.1-8B-Instruct-q4f16_1", "Phi-3-mini-4k-instruct-q4f16_1">>,
        capabilities |-> {"text-generation", "conversation", "reasoning"} ],
    tensorflow |->
      [ priority |-> 3, requires |-> {"webgl2", "webassembly"},
        models |-> <<"universal-sentence-encoder", "mobilenet">>,
        capabilities |-> {"text-analysis", "classification"} ],
    onnx |->
      [ priority |-> 4, requires |-> {"webassembly"},
        models |-> <<"distilbert-base-uncased", "gpt2">>,
        capabilities |-> {"text-analysis", "basic-generation"} ] ]

Techs == DOMAIN technologyStack

\* Object.entries enumerates string keys in declaration order
DeclarationOrder == <<"transformers", "webllm", "tensorflow", "onnx">>

\* the orders in which the same four descriptors can be declared
DeclarationOrders ==
  { p \in [1..Cardinality(Techs) -> Techs] : \A x \in Techs : \E i \in DOMAIN p : p[i] = x }

\* values of the requiredCapability parameter
RequiredCapabilities == {"conversation", "analysis", "classification"}

\* capability flags read by meetsRequirements
Flags == {"webassembly", "webgpu", "webgl2"}

\* capability arguments: an EnhancedDeviceCapabilities object (it has the
\* webassembly key) or a plain DeviceCapabilities object (gpu.webgl2 only)
CapabilityInputs ==
  [kind : {"enhanced"}, webassembly : BOOLEAN, webgpu : BOOLEAN, webgl2 : BOOLEAN]
    \cup [kind : {"basic"}, webassembly : {FALSE}, webgpu : BOOLEAN, webgl2 : BOOLEAN]

\* what a benchmark probe can do: throw, or complete after so many ms
BenchmarkCeiling == 30000

Latencies == {0, 29999, 30000}
ProbeOutcomes ==
  [threw : {TRUE}, latency : {0}] \cup [threw : {FALSE}, latency : Latencies]

\* how each probe of one selection would behave; a technology that cannot
\* be probed in that selection gets a fixed entry
NotProbed == [threw |-> TRUE, latency |-> 0]
ProbeEnvs(candidates) ==
  { e \in [Techs -> ProbeOutcomes] :
      \A t \in Techs : t \notin candidates => e[t] = NotProbed }

RECURSIVE InsertByPriorityDescending(_, _)
\* insertion that puts the higher rank number first
InsertByPriorityDescending(sorted, tech) ==
  IF sorted = <<>> THEN <<tech>>
  ELSE IF technologyStack[Head(sorted)].priority >= technologyStack[tech].priority
       THEN <<Head(sorted)>> \o InsertByPriorityDescending(Tail(sorted), tech)
       ELSE <<tech>> \o sorted

RECURSIVE InsertByPriority(_, _)
\* insertion after every entry of equal or lower rank (a stable sort)
InsertByPriority(sorted, tech) ==
  IF sorted = <<>> THEN <<tech>>
  ELSE IF technologyStack[Head(sorted)].priority <= technologyStack[tech].priority
       THEN <<Head(sorted)>> \o InsertByPriority(Tail(sorted), tech)
       ELSE <<tech>> \o sorted

\* the candidates left in enumeration order
SortByPriorityOmitted(s) == s

RECURSIVE SortByPriority(_)
SortByPriority(s) ==
  IF s = <<>> THEN <<>>
  ELSE InsertByPriority(SortByPriority(SubSeq(s, 1, Len(s) - 1)), s[Len(s)])

\* Object.entries(...).filter(capabilities.includes(required)).sort(by priority)
SuitableTechs(order, required) ==
  LET Lists(t) == required \in technologyStack[t].capabilities
  IN  SortByPriority(SelectSeq(order, Lists))

\* the flags that are truthy in the normalised capability object
normalizeCapabilities(input, envWasm) ==
  IF input.kind = "enhanced"
  THEN { f \in Flags : input[f] }
  ELSE (IF input.webgl2 THEN {"webgl2"} ELSE {})
         \cup (IF envWasm THEN {"webassembly"} ELSE {})

\* requirements.some(...) in place of requirements.every(...)
meetsRequirementsSome(caps, requirements) ==
  \E requirement \in requirements : requirement \in caps

meetsRequirements(caps, requirements) ==
  \A requirement \in requirements : requirement \in caps

\* calculateConfidence without Math.min(1, ...)
calculateConfidenceUncapped(priority, benchmark) ==
  LET b == IF benchmark = NoBenchmark THEN 30000 ELSE benchmark
      base == IF 60000 - b > 6000 THEN 60000 - b ELSE 6000
      boost == IF 5 - priority > 0 THEN (5 - priority) * 6000 ELSE 0
  IN  (2 * (base + boost) + 600) \div 1200

\* Math.min(1, Number((base + priorityBoost).toFixed(2))), in hundredths
calculateConfidence(priority, benchmark) ==
  LET b == IF benchmark = NoBenchmark THEN 30000 ELSE benchmark
      base == IF 60000 - b > 6000 THEN 60000 - b ELSE 6000
      boost == IF 5 - priority > 0 THEN (5 - priority) * 6000 ELSE 0
      rounded == (2 * (base + boost) + 600) \div 1200
  IN  IF rounded < 100 THEN rounded ELSE 100

\* benchmarkTechnology without its try/catch
benchmarkTechnologyNoCatch(tech, outcome, bench) ==
  IF tech \notin {"transformers", "tensorflow", "onnx", "webllm"}
  THEN [success |-> FALSE, threw |-> FALSE, bench |-> bench]
  ELSE IF outcome.threw
  THEN [success |-> FALSE, threw |-> TRUE, bench |-> bench]
  ELSE [success |-> outcome.latency < BenchmarkCeiling, threw |-> FALSE,
        bench |-> [bench EXCEPT ![tech] = outcome.latency]]

\* benchmarkTechnology with a probe at the ceiling counted as successful
benchmarkTechnologyInclusive(tech, outcome, bench) ==
  IF tech \notin {"transformers", "tensorflow", "onnx", "webllm"}
  THEN [success |-> FALSE, threw |-> FALSE, bench |-> bench]
  ELSE IF outcome.threw
  THEN [success |-> FALSE, threw |-> FALSE, bench |-> bench]
  ELSE [success |-> outcome.latency <= BenchmarkCeiling, threw |-> FALSE,
        bench |-> [bench EXCEPT ![tech] = outcome.latency]]

\* the result of one benchmarkTechnology call whose probe behaves as outcome:
\* threw tells whether the call itself throws
benchmarkTechnology(tech, outcome, bench) ==
  IF tech \notin {"transformers", "tensorflow", "onnx", "webllm"}
  THEN [success |-> FALSE, threw |-> FALSE, bench |-> bench]
  ELSE IF outcome.threw
  THEN [success |-> FALSE, threw |-> FALSE, bench |-> bench]
  ELSE [success |-> outcome.latency < BenchmarkCeiling, threw |-> FALSE,
        bench |-> [bench EXCEPT ![tech] = outcome.latency]]

NoRecommendation ==
  [technology |-> "", model |-> "", capability |-> "", fallbacks |-> <<>>,
   confidence |-> -1]

CloudSentinel(required) ==
  [technology |-> "cloud", model |-> "api-fallback", capability |-> required,
   fallbacks |-> <<>>, confidence |-> 0]

RecommendationFor(tech, required, bench) ==
  LET config == technologyStack[tech]
  IN  [technology |-> tech, model |-> config.models[1], capability |-> required,
       fallbacks |-> Tail(config.models),
       confidence |-> calculateConfidence(config.priority, bench[tech])]

\* the loop left (break) at the first candidate whose requirements fail
NextEligibleBreak(suitable, caps, from) ==
  IF from > Len(suitable) THEN from
  ELSE IF meetsRequirements(caps, technologyStack[suitable[from]].requires)
       THEN from
       ELSE Len(suitable) + 1

\* index of the first candidate at or after from whose requirements are met
RECURSIVE NextEligible(_, _, _)
NextEligible(suitable, caps, from) ==
  IF from > Len(suitable) THEN from
  ELSE IF meetsRequirements(caps, technologyStack[suitable[from]].requires)
       THEN from
       ELSE NextEligible(suitable, caps, from + 1)

(***************************************************************************)
(* JavaScript values and JSON text.                                        *)
(* A value is a tagged record; a JavaScript string is the sequence of its  *)
(* pieces (tokens), so that a prefix test and a substring are operations   *)
(* on sequences.  JSON text is the token sequence JSON.stringify emits.    *)
(***************************************************************************)
JUndefined == [t |-> "undefined"]
JNull == [t |-> "null"]
JNum(n) == [t |-> "number", n |-> n]
JStr(s) == [t |-> "string", s |-> s]
JArr(items) == [t |-> "array", items |-> items]
JObj(fields) == [t |-> "object", fields |-> fields]
Field(k, v) == [k |-> k, v |-> v]

\* number literals of the model; NaN and Infinity are numbers without JSON text
FiniteNumbers == {"0", "1", "2", "3", "4"}
NonFiniteNumbers == {"NaN", "Infinity"}

Quote == "\""

\* JSON.stringify(v) as a token sequence; JSON.stringify(undefined) is the
\* value undefined, which string concatenation renders as the text undefined
RECURSIVE JSONstringify(_)
JSONstringify(v) ==
  CASE v.t = "undefined" -> <<"undefined">>
    [] v.t = "null" -> <<"null">>
    [] v.t = "number" -> IF v.n \in FiniteNumbers THEN <<v.n>> ELSE <<"null">>
    [] v.t = "string" -> <<Quote>> \o v.s \o <<Quote>>
    [] v.t = "array" ->
         LET Item(i) == IF v.items[i].t = "undefined" THEN <<"null">>
                        ELSE JSONstringify(v.items[i])
             Join[i \in 0..Len(v.items)] ==
               IF i = 0 THEN <<>>
               ELSE IF i = 1 THEN Item(1)
               ELSE Join[i - 1] \o <<",">> \o Item(i)
         IN  <<"[">> \o Join[Len(v.items)] \o <<"]">>
    [] v.t = "object" ->
         LET kept == SelectSeq(v.fields, LAMBDA f : f.v.t # "undefined")
             Member(i) == <<Quote, kept[i].k, Quote, ":">> \o JSONstringify(kept[i].v)
             Join[i \in 0..Len(kept)] ==
               IF i = 0 THEN <<>>
               ELSE IF i = 1 THEN Member(1)
               ELSE Join[i - 1] \o <<",">> \o Member(i)
         IN  <<"{">> \o Join[Len(kept)] \o <<"}">>

ParseFailure == [ok |-> FALSE, v |-> JNull, rest |-> <<>>]
Parsed(v, rest) == [ok |-> TRUE, v |-> v, rest |-> rest]

\* position of the first Quote token of s, Len(s) + 1 when there is none
RECURSIVE QuoteAt(_, _)
QuoteAt(s, i) ==
  IF i > Len(s) THEN i
  ELSE IF s[i] = Quote THEN i ELSE QuoteAt(s, i + 1)

\* recursive-descent parser of JSON text
RECURSIVE ParseValue(_), ParseItems(_, _), ParseMembers(_, _)
ParseValue(toks) ==
  IF toks = <<>> THEN ParseFailure
  ELSE LET h == Head(toks)
           rest == Tail(toks)
       IN  CASE h = "null" -> Parsed(JNull, rest)
             [] h \in FiniteNumbers -> Parsed(JNum(h), rest)
             [] h = Quote ->
                  LET q == QuoteAt(rest, 1)
                  IN  IF q > Len(rest) THEN ParseFailure
                      ELSE Parsed(JStr(SubSeq(rest, 1, q - 1)),
                                  SubSeq(rest, q + 1, Len(rest)))
             [] h = "[" ->
                  IF rest # <<>> /\ Head(rest) = "]"
                  THEN Parsed(JArr(<<>>), Tail(rest))
                  ELSE ParseItems(rest, <<>>)
             [] h = "{" ->
                  IF rest # <<>> /\ Head(rest) = "}"
                  THEN Parsed(JObj(<<>>), Tail(rest))
                  ELSE ParseMembers(rest, <<>>)
             [] OTHER -> ParseFailure

ParseItems(toks, acc) ==
  LET r == ParseValue(toks)
  IN  IF ~r.ok \/ r.rest = <<>> THEN ParseFailure
      ELSE IF Head(r.rest) = "," THEN ParseItems(Tail(r.rest), Append(acc, r.v))
      ELSE IF Head(r.rest) = "]" THEN Parsed(JArr(Append(acc, r.v)), Tail(r.rest))
      ELSE ParseFailure

ParseMembers(toks, acc) ==
  IF Len(toks) < 5 \/ toks[1] # Quote \/ toks[3] # Quote \/ toks[4] # ":"
  THEN ParseFailure
  ELSE LET r == ParseValue(SubSeq(toks, 5, Len(toks)))
           \* a repeated key keeps its first position and takes the last value
           without == SelectSeq(acc, LAMBDA f : f.k # toks[2])
           members == Append(without, Field(toks[2], r.v))
       IN  IF ~r.ok \/ r.rest = <<>> THEN ParseFailure
           ELSE IF Head(r.rest) = "," THEN ParseMembers(Tail(r.rest), members)
           ELSE IF Head(r.rest) = "}" THEN Parsed(JObj(members), Tail(r.rest))
           ELSE ParseFailure

\* JSON.parse(text): ok is FALSE when it throws a SyntaxError
JSONparse(toks) ==
  LET r == ParseValue(toks)
  IN  IF r.ok /\ r.rest = <<>> THEN [ok |-> TRUE, v |-> r.v]
      ELSE [ok |-> FALSE, v |-> JNull]

\* Boolean(v)
Truthy(v) ==
  CASE v.t \in {"undefined", "null"} -> FALSE
    [] v.t = "number" -> v.n \notin {"0", "NaN"}
    [] v.t = "string" -> v.s # <<>>
    [] OTHER -> TRUE

\* v[key] of an object value, undefined when absent
GetField(v, key) ==
  IF v.t = "object" /\ \E i \in DOMAIN v.fields : v.fields[i].k = key
  THEN v.fields[CHOOSE i \in DOMAIN v.fields : v.fields[i].k = key].v
  ELSE JUndefined

(***************************************************************************)
(* Encryption helpers of encryptedHybridStorage.                           *)
(***************************************************************************)
EncryptedPrefix == "encrypted:"

\* 'encrypted:' + JSON.stringify(data)
encrypt(data) == JStr(<<EncryptedPrefix>> \o JSONstringify(data))

\* decrypt(encryptedData): threw is TRUE when JSON.parse throws
decrypt(encryptedData) ==
  IF encryptedData.s # <<>> /\ Head(encryptedData.s) = EncryptedPrefix
  THEN LET r == JSONparse(Tail(encryptedData.s))
       IN  [threw |-> ~r.ok, v |-> r.v]
  ELSE [threw |-> FALSE, v |-> encryptedData]

(***************************************************************************)
(* Hybrid storage engine: configuration, items and connectors.             *)
(***************************************************************************)
\* the engine options after destructuring: encryptionKey tells whether
\* generateEncryptionKey produced a key; connectors are the built connectors
EngineConfig(level, hasCrypto, connectors, awaitDefault, defaultTargets) ==
  [encryptionLevel |-> level,
   encryptionKey |-> (level # "none" /\ hasCrypto),
   connectors |-> connectors,
   awaitSyncByDefault |-> awaitDefault,
   defaultSyncTargets |-> defaultTargets]

DefaultConfig == EngineConfig("metadata", FALSE, <<>>, FALSE, <<>>)

\* a built connector: its id, its autoSync flag and whether it has the
\* optional retrieve and list methods
Connector(id, autoSync, hasRetrieve, hasList) ==
  [id |-> id, autoSync |-> autoSync, hasRetrieve |-> hasRetrieve,
   hasList |-> hasList]
ConnectorIds == {"c1", "c2"}

\* `${dataType}_${Date.now()}_${random suffix}`: stamp stands for the pair
\* of the clock reading and the random suffix
MakeId(dataType, stamp) == [type |-> dataType, stamp |-> stamp]
NoId == MakeId("", "")

\* type inference that tests the presence of the nodes and edges fields and
\* not the truthiness of their values
InferTypeByPresence(data, type) ==
  IF type # "auto" THEN type
  ELSE IF data.t = "array" /\ Len(data.items) > 0 /\ data.items[1].t = "array"
       THEN "vector"
  ELSE IF /\ data.t = "object"
          /\ \E i \in DOMAIN data.fields : data.fields[i].k = "nodes"
          /\ \E i \in DOMAIN data.fields : data.fields[i].k = "edges"
       THEN "graph"
  ELSE "relational"

\* type inference of store for type 'auto'
InferType(data, type) ==
  IF type # "auto" THEN type
  ELSE IF data.t = "array" /\ Len(data.items) > 0 /\ data.items[1].t = "array"
       THEN "vector"
  ELSE IF /\ data.t \in {"object", "array"}
          /\ Truthy(GetField(data, "nodes"))
          /\ Truthy(GetField(data, "edges"))
       THEN "graph"
  ELSE "relational"

\* encryptedData of store
StoredData(config, data) ==
  IF config.encryptionKey /\ config.encryptionLevel = "full"
  THEN encrypt(data) ELSE data

\* encryptedMetadata of store
StoredMetadata(config, metadata) ==
  IF config.encryptionKey /\ config.encryptionLevel \in {"metadata", "full"}
  THEN encrypt(metadata) ELSE metadata

\* options.metadata with its default {}
MetadataOrDefault(metadata) ==
  IF metadata.t = "undefined" THEN JObj(<<>>) ELSE metadata

\* the in-memory maps are sets of items with distinct ids
MapGet(map, id) == {item \in map : item.id = id}
MapSet(map, item) == {old \in map : old.id # item.id} \cup {item}

\* connectors.length && (!options.skipSync || an explicit target list)
shouldSyncUnlessTargets(config, opts) ==
  Len(config.connectors) > 0 /\ (~opts.skipSync \/ opts.syncTargets.given)

\* connectors.length && !options.skipSync
shouldSync(config, opts) ==
  Len(config.connectors) > 0 /\ ~opts.skipSync

\* the targets argument with the engine's defaultSyncTargets left out
ResolvedTargetsNoDefault(config, opts) == opts.syncTargets.ids

\* the targets argument handed to syncPayloadAcrossConnectors by store;
\* the empty list stands for undefined
ResolvedTargets(config, opts) ==
  IF opts.syncTargets.given THEN opts.syncTargets.ids
  ELSE config.defaultSyncTargets

\* the fan-out filter with the targets argument ignored
TargetedConnectorsAutoOnly(connectors, targets) ==
  SelectSeq(connectors, LAMBDA c : c.autoSync)

\* syncPayloadAcrossConnectors: the connectors whose store is invoked
TargetedConnectors(connectors, targets) ==
  SelectSeq(connectors,
            LAMBDA c : IF Len(targets) > 0
                       THEN \E i \in DOMAIN targets : targets[i] = c.id
                       ELSE c.autoSync)

\* a fan-out of syncPayloadAcrossConnectors is told apart by the operation
\* that started it and that operation's number
StoreCall(n) == [op |-> "store", n |-> n]
SyncCall(n) == [op |-> "sync", n |-> n]

\* one operation of the fan-out with its try/catch left out: a connector
\* that throws makes the operation reject
SyncOperationNoCatch(connector, call, outcome) ==
  [result |-> [connector |-> connector, call |-> call, success |-> outcome = "ok"],
   rejected |-> outcome = "throw"]

\* one operation of the fan-out: the ConnectorSyncResult it resolves with
\* when connector.store resolved with success (ok), resolved with
\* success: false (fail) or threw (throw)
SyncOperation(connector, call, outcome) ==
  [result |-> [connector |-> connector, call |-> call, success |-> outcome = "ok"],
   rejected |-> FALSE]

\* options.awaitSync alone, without the store-wide default
AwaitsSyncIgnoringDefault(config, opts) == opts.awaitSync = "true"

\* options.awaitSync ?? awaitSyncByDefault
AwaitsSync(config, opts) ==
  IF opts.awaitSync = "unset" THEN config.awaitSyncByDefault
  ELSE opts.awaitSync = "true"

ErrNotFound == "not found"
ErrSyntax == "SyntaxError"
ErrNotFoundForSync == "not found in local storage for synchronisation"
ErrConnector == "error thrown by a connector"

NoStResult ==
  [kind |-> "none", msg |-> "", id |-> NoId, data |-> JUndefined,
   metadata |-> JUndefined, timestamp |-> "", results |-> <<>>]
StError(msg) == [NoStResult EXCEPT !.kind = "error", !.msg = msg]
Stored(id) == [NoStResult EXCEPT !.kind = "stored", !.id = id]
SyncReturned(results) == [NoStResult EXCEPT !.kind = "synced", !.results = results]

\* the tail of retrieve: decryption of the item found and the returned value
RetrieveReturn(config, item) ==
  LET d == IF /\ config.encryptionKey /\ config.encryptionLevel = "full"
              /\ item.data.t = "string"
           THEN decrypt(item.data) ELSE [threw |-> FALSE, v |-> item.data]
      m == IF /\ config.encryptionKey
              /\ config.encryptionLevel \in {"metadata", "full"}
              /\ item.metadata.t = "string"
           THEN decrypt(item.metadata) ELSE [threw |-> FALSE, v |-> item.metadata]
  IN  IF d.threw \/ m.threw THEN StError(ErrSyntax)
      ELSE [kind |-> "retrieved", msg |-> "", id |-> item.id, data |-> d.v,
            metadata |-> m.v, timestamp |-> item.timestamp, results |-> <<>>]

NoStoreOpts ==
  [type |-> "auto", metadata |-> JUndefined,
   syncTargets |-> [given |-> FALSE, ids |-> <<>>],
   skipSync |-> FALSE, awaitSync |-> "unset"]
NoRetrieveArgs ==
  [id |-> NoId, type |-> "auto", source |-> "all", preferred |-> <<>>,
   order |-> <<>>, idx |-> 0]
NoSyncArgs == [id |-> NoId, targets |-> <<>>]
NoQueryArgs ==
  [type |-> "", limit |-> 0, source |-> "", order |-> <<>>, idx |-> 0,
   memory |-> <<>>]
NoLastStore ==
  [id |-> NoId, type |-> "", data |-> JUndefined, metadata |-> JUndefined]

(***************************************************************************)
(* Capability detection (utils/deviceDetection).                           *)
(* An environment tells what each probe of one detection meets: the        *)
(* globals are read when the detection starts, the awaited probes meet     *)
(* their outcome when they settle.                                         *)
(***************************************************************************)
DetectionEnvs ==
  { e \in [navigator : BOOLEAN, hardwareConcurrency : {0, 8}, navigatorGpu : BOOLEAN,
           battery : {"absent", "pending"},
           document : BOOLEAN, canvas : {"throws", "none", "webgl", "webgl2"},
           renderer : {"throws", "intel", "nvidia"},
           webassembly : {FALSE},
           tensorflow : {"unprobed"}, onnx : {"unprobed"},
           transformers : {"unprobed"}] :
      /\ ~e.navigator =>
           (e.hardwareConcurrency = 0 /\ ~e.navigatorGpu /\ e.battery = "absent")
      /\ ~e.document => e.canvas = "none"
      /\ e.canvas \in {"throws", "none"} => e.renderer = "intel" }

\* how navigator.getBattery() settles
BatteryOutcomes == {"rejects", "ok"}

\* what the WebAssembly global and the three dynamic imports give
RuntimeOutcomes ==
  [webassembly : BOOLEAN,
   tensorflow : {"ok", "import fails", "ready rejects"},
   onnx : {"ok", "import fails"},
   transformers : {"ok", "import fails"}]

WithRuntimes(env, r) ==
  [env EXCEPT !.webassembly = r.webassembly, !.tensorflow = r.tensorflow,
              !.onnx = r.onnx, !.transformers = r.transformers]

NoGpu == [supported |-> FALSE, type |-> "", webgl2 |-> FALSE, webgpu |-> FALSE]

\* the gpu record of detectDeviceCapabilities
detectGpu(env) ==
  IF env.document /\ env.canvas \in {"webgl", "webgl2"}
  THEN [supported |-> TRUE,
        type |-> IF env.renderer = "nvidia" THEN "dedicated" ELSE "integrated",
        webgl2 |-> env.canvas = "webgl2",
        webgpu |-> env.navigator /\ env.navigatorGpu]
  ELSE NoGpu

\* the battery field once getBattery has settled
detectBattery(env) == IF env.battery = "ok" THEN "reported" ELSE "null"

\* cpu.cores of detectDeviceCapabilities
detectCores(env) ==
  IF env.navigator /\ env.hardwareConcurrency # 0 THEN env.hardwareConcurrency ELSE 1

\* testTensorFlowJS without its try/catch
testTensorFlowJSNoCatch(env) ==
  [threw |-> env.tensorflow # "ok", v |-> env.tensorflow = "ok"]

\* the runtime probes of detectEnhancedCapabilities; threw tells whether the
\* probe's promise rejects
testTensorFlowJS(env) == [threw |-> FALSE, v |-> env.tensorflow = "ok"]

testONNXJS(env) == [threw |-> FALSE, v |-> env.onnx = "ok"]

testTransformersJS(env) == [threw |-> FALSE, v |-> env.transformers = "ok"]

testWebGPU(env) == [threw |-> FALSE, v |-> env.navigator /\ env.navigatorGpu]

testWebGL2(env) == [threw |-> FALSE, v |-> env.document /\ env.canvas = "webgl2"]

testWebAssembly(env) == [threw |-> FALSE, v |-> env.webassembly]

NoCapabilities ==
  [kind |-> "none", cores |-> 0, gpu |-> NoGpu, battery |-> "null",
   webgpu |-> FALSE, webgl2 |-> FALSE, webassembly |-> FALSE,
   tensorflowjs |-> FALSE, onnxjs |-> FALSE, transformersjs |-> FALSE,
   cpuCores |-> 0]

\* the DeviceCapabilities object detectDeviceCapabilities returns
Baseline(env, battery) ==
  [NoCapabilities EXCEPT !.kind = "basic", !.cores = detectCores(env),
                         !.gpu = detectGpu(env), !.battery = battery]

\* the EnhancedDeviceCapabilities object built from the baseline and the
\* resolved probes
Enhanced(env, baseline) ==
  [baseline EXCEPT !.kind = "enhanced",
                   !.webgpu = testWebGPU(env).v,
                   !.webgl2 = testWebGL2(env).v,
                   !.webassembly = testWebAssembly(env).v,
                   !.tensorflowjs = testTensorFlowJS(env).v,
                   !.onnxjs = testONNXJS(env).v,
                   !.transformersjs = testTransformersJS(env).v,
                   !.cpuCores = IF env.navigator /\ env.hardwareConcurrency # 0
                                THEN env.hardwareConcurrency
                                ELSE IF baseline.cores # 0 THEN baseline.cores ELSE 4]

\* whether Promise.all over the six probes rejects
ProbesReject(env) ==
  \/ testWebGPU(env).threw \/ testWebGL2(env).threw \/ testWebAssembly(env).threw
  \/ testTensorFlowJS(env).threw \/ testONNXJS(env).threw
  \/ testTransformersJS(env).threw

(***************************************************************************)
(* Provider adapters (the AIProvider contract).                            *)
(***************************************************************************)
NewAdapter(tech) == [tech |-> tech, loaded |-> FALSE, modelId |-> ""]

\* initialize without the try/catch around the runtime import
AdapterInitializeNoCatch(adapter, modelId, envOk) ==
  IF envOk
  THEN [ret |-> TRUE, threw |-> FALSE,
        adapter |-> [adapter EXCEPT !.loaded = TRUE, !.modelId = modelId]]
  ELSE [ret |-> FALSE, threw |-> TRUE, adapter |-> adapter]

\* initialize(modelId) on an adapter; envOk: the runtime library loads the
\* model.  ret is the returned boolean, threw tells whether the call throws.
AdapterInitialize(adapter, modelId, envOk) ==
  CASE adapter.tech = "transformers" ->
         IF envOk
         THEN [ret |-> TRUE, threw |-> FALSE,
               adapter |-> [adapter EXCEPT !.loaded = TRUE]]
         ELSE [ret |-> FALSE, threw |-> FALSE, adapter |-> adapter]
    [] adapter.tech = "webllm" ->
         IF envOk
         THEN [ret |-> TRUE, threw |-> FALSE,
               adapter |-> [adapter EXCEPT !.loaded = TRUE, !.modelId = modelId]]
         ELSE [ret |-> FALSE, threw |-> FALSE,
               adapter |-> [adapter EXCEPT !.loaded = FALSE, !.modelId = ""]]
    [] OTHER ->
         [ret |-> TRUE, threw |-> FALSE,
          adapter |-> [adapter EXCEPT !.loaded = TRUE, !.modelId = modelId]]

AdapterIsReady(adapter) == adapter.loaded

\* the message of the error generate throws on an adapter that is not ready
ErrNotInitialized(tech) ==
  CASE tech = "transformers" -> "TransformersJS not initialized"
    [] tech = "webllm" -> "WebLLM not initialized"
    [] tech = "tensorflow" -> "TensorFlowAdapter not initialized"
    [] OTHER -> "ONNXAdapter not initialized"

\* generate without its guard on the adapter's state
AdapterGenerateUnguarded(adapter) == [threw |-> FALSE, msg |-> ""]

\* generate(prompt) on an adapter: the pipeline of TransformersJSAdapter, the
\* engine and modelId of WebLLMAdapter, the ready flag and modelId of
\* TensorFlowAdapter and ONNXAdapter decide whether it throws
AdapterGenerate(adapter) ==
  IF CASE adapter.tech = "transformers" -> adapter.loaded
       [] OTHER -> adapter.loaded /\ adapter.modelId # ""
  THEN [threw |-> FALSE, msg |-> ""]
  ELSE [threw |-> TRUE, msg |-> ErrNotInitialized(adapter.tech)]

\* createProvider: the switch on the technology name
createProvider(technology) ==
  IF technology \in {"transformers", "tensorflow", "onnx", "webllm"}
  THEN [threw |-> FALSE, adapter |-> NewAdapter(technology)]
  ELSE [threw |-> TRUE, adapter |-> NewAdapter(technology)]

\* a comparison against the model field in place of the technology field
recommendationIsCloudWrongField(rec) == rec.model = "cloud"

\* recommendation.technology === 'cloud'
recommendationIsCloud(rec) == rec.technology = "cloud"

\* the test of an attempt dropped: every attempt registers the provider
attemptSucceededAlways(success, ready) == TRUE

\* success && !(await provider.isReady())
attemptSucceededNegated(success, ready) == success /\ ~ready

\* success && (await provider.isReady())
attemptSucceeded(success, ready) == success /\ ready

ErrNoCompatible == "No compatible on-device AI technology available"
ErrAllFailed == "All AI initialization attempts failed"
ErrUnsupported == "Unsupported AI technology"
ErrPropagated == "error propagated from a callee"

ErrNoProvider == "No AI provider initialized"

\* a generation request: who asked (the facade or a holder of the adapter),
\* aiProviders.get('active') at the time, whether and on which adapter
\* generate was called, and how the request ended
NoGeneration ==
  [via |-> "none", active |-> 0, called |-> FALSE, adapter |-> NewAdapter(""),
   result |-> [threw |-> FALSE, msg |-> ""]]

NoResult == [kind |-> "none", msg |-> "", provider |-> 0]
Failure(msg) == [kind |-> "error", msg |-> msg, provider |-> 0]

(***************************************************************************)
(* State.                                                                  *)
(***************************************************************************)
VARIABLES
  stackOrder,      \* enumeration order of technologyStack
  calls,           \* selector/facade calls started so far
  caller,          \* who started the running selection: "direct" | "facade"
  selPc,           \* "idle" | "probing" | "returned" | "thrown"
  selCaps,         \* normalised capability flags of the running selection
  selReq,          \* requiredCapability of the running selection
  suitableTechs,   \* filtered and sorted candidates
  selIdx,          \* position of the candidate being probed
  probeEnv,        \* how each technology's probe behaves during this selection
  probeLog,        \* technologies whose probe was started, in order
  probeEnds,       \* the probes that finished: [tech, threw, success]
  benchmarks,      \* the benchmarks map
  recommendation,  \* value returned by the last selection
  facPc,           \* "idle" | "detect" | "select" | "init" | "done"
  facReq,          \* requiredCapability of the running initializeAI
  providers,       \* every adapter constructed so far
  current,         \* index in providers of the adapter of the running call
  facIdx,          \* position of the next model to try (1 = primary)
  attempts,        \* initialize calls of the running initializeAI, in order
  created,         \* adapters constructed by the running initializeAI
  activeBefore,    \* aiProviders.get('active') when the call started
  activeProvider,  \* aiProviders.get('active'): index in providers, 0 if unset
  facResult,       \* how the last initializeAI call ended
  lastGeneration,  \* the last generate / generateResponse request
  cfg,             \* the storage engine's options, key and connectors
  vectorStore,     \* the in-memory maps, as sets of items
  graphStore,
  relationalStore,
  storeCalls,      \* store calls started so far
  inflight,        \* connector.store calls invoked and not yet settled
  settled,         \* ConnectorSyncResults produced so far
  remote,          \* what each connector holds
  stPc,            \* "idle" | "storeAwaiting" | "retrieving"
  stKind,          \* the last storage operation: "none" | "store" | "retrieve"
  storeOpts,       \* options of the last store call
  retrArgs,        \* arguments and loop position of the last retrieve call
  opCalls,         \* connector methods invoked by the last storage operation
  stResult,        \* what the last storage operation returned or threw
  lastStore,       \* id and inputs of the last store call
  syncCalls,       \* sync calls started so far
  syncArgs,        \* arguments of the last sync call
  retrThrew,       \* connectors whose retrieve threw during the last retrieve
  queryArgs,       \* arguments, memory results and loop position of the last query
  listed,          \* connectorResults of the running query
  detPc,           \* "idle" | "battery" | "probes" | "done" | "thrown"
  detKind,         \* "basic" (detectDeviceCapabilities) | "enhanced"
  detEnv,          \* what the probes of the running detection meet
  detResult,       \* the capability object of the last detection
  scInitialized,   \* SmartClone.initialized
  scStorage,       \* SmartClone._storage: 0 (null) or the position of an engine
  scEngines,       \* engines built by encryptedHybridStorage: ids each holds
  scCalls          \* calls made on the SmartClone object and where each stands

selVars == <<stackOrder, caller, selPc, selCaps, selReq, suitableTechs, selIdx,
             probeEnv, probeLog, probeEnds, benchmarks, recommendation>>
facVars == <<facPc, facReq, providers, current, facIdx, attempts,
             created, activeBefore, activeProvider, facResult,
             lastGeneration>>
stoVars == <<cfg, vectorStore, graphStore, relationalStore, storeCalls, inflight,
             settled, remote, stPc, stKind, storeOpts, retrArgs, opCalls,
             stResult, lastStore, syncCalls, syncArgs, retrThrew, queryArgs,
             listed>>
detVars == <<detPc, detKind, detEnv, detResult>>
scVars == <<scInitialized, scStorage, scEngines, scCalls>>
vars == <<calls, selVars, facVars, stoVars, detVars, scVars>>

(***************************************************************************)
(* Selector: selectOptimalTechnology.                                      *)
(***************************************************************************)
\* continue the for-loop from position from: start the probe of the next
\* eligible candidate, or return the sentinel when none is left
ContinueSelection(suitable, caps, required, from, log) ==
  LET next == NextEligible(suitable, caps, from)
  IN  IF next <= Len(suitable)
      THEN /\ selPc' = "probing"
           /\ selIdx' = next
           /\ probeLog' = Append(log, suitable[next])
           /\ recommendation' = NoRecommendation
      ELSE /\ selPc' = "returned"
           /\ selIdx' = next
           /\ probeLog' = log
           /\ recommendation' = CloudSentinel(required)

BeginSelection(caps, required, who) ==
  LET suitable == SuitableTechs(stackOrder, required)
  IN  /\ caller' = who
      /\ selCaps' = caps
      /\ selReq' = required
      /\ suitableTechs' = suitable
      /\ probeEnv' \in ProbeEnvs({suitable[i] : i \in
                 {j \in DOMAIN suitable :
                    meetsRequirements(caps, technologyStack[suitable[j]].requires)}})
      /\ probeEnds' = <<>>
      /\ ContinueSelection(suitable, caps, required, 1, <<>>)
      /\ UNCHANGED <<stackOrder, benchmarks>>

Quiescent == selPc \in {"idle", "returned", "thrown"} /\ facPc \in {"idle", "done"}

\* a caller invokes selectOptimalTechnology directly
selectOptimalTechnology ==
  /\ Quiescent
  /\ calls < MaxCalls
  /\ calls' = calls + 1
  /\ \E caps \in {normalizeCapabilities(input, envWasm) :
                     input \in CapabilityInputs, envWasm \in BOOLEAN},
        required \in RequiredCapabilities :
       BeginSelection(caps, required, "direct")
  /\ facPc' = "idle"
  /\ UNCHANGED <<facReq, providers, current, facIdx, attempts, created,
                 activeBefore, activeProvider, facResult>>
  /\ UNCHANGED <<stoVars, detVars, scVars>>
  /\ UNCHANGED lastGeneration

\* the awaited benchmarkTechnology call of the current candidate finishes
ProbeFinished ==
  /\ selPc = "probing"
  /\ LET tech == suitableTechs[selIdx]
         r == benchmarkTechnology(tech, probeEnv[tech], benchmarks)
     IN  /\ benchmarks' = r.bench
         /\ probeEnds' = Append(probeEnds,
              [tech |-> tech, threw |-> probeEnv[tech].threw, success |-> r.success])
         /\ IF r.threw
            THEN /\ selPc' = "thrown"
                 /\ UNCHANGED <<selIdx, probeLog, recommendation>>
            ELSE IF r.success
            THEN /\ selPc' = "returned"
                 /\ recommendation' = RecommendationFor(tech, selReq, r.bench)
                 /\ UNCHANGED <<selIdx, probeLog>>
            ELSE ContinueSelection(suitableTechs, selCaps, selReq, selIdx + 1, probeLog)
  /\ UNCHANGED <<calls, stackOrder, caller, selCaps, selReq, suitableTechs,
                 probeEnv, facVars>>
  /\ UNCHANGED <<stoVars, detVars, scVars>>

(***************************************************************************)
(* Facade: SmartCloneIntegration.initializeAI.                             *)
(***************************************************************************)
\* initializeAI is called; it awaits detectEnhancedCapabilities
initializeAI ==
  /\ Quiescent
  /\ calls < MaxCalls
  /\ calls' = calls + 1
  /\ \E required \in {"conversation", "analysis"} : facReq' = required
  /\ facPc' = "detect"
  /\ attempts' = <<>>
  /\ created' = 0
  /\ current' = 0
  /\ facIdx' = 0
  /\ activeBefore' = activeProvider
  /\ facResult' = NoResult
  /\ UNCHANGED <<providers, activeProvider, selVars>>
  /\ UNCHANGED <<stoVars, detVars, scVars>>
  /\ UNCHANGED lastGeneration

\* detection returns an EnhancedDeviceCapabilities object; selection starts
DetectionReturned ==
  /\ facPc = "detect"
  /\ facPc' = "select"
  /\ \E caps \in {normalizeCapabilities(input, TRUE) :
                     input \in {c \in CapabilityInputs : c.kind = "enhanced"}} :
       BeginSelection(caps, facReq, "facade")
  /\ UNCHANGED <<calls, facReq, providers, current, facIdx, attempts,
                 created, activeBefore, activeProvider, facResult>>
  /\ UNCHANGED <<stoVars, detVars, scVars>>
  /\ UNCHANGED lastGeneration

\* the models initializeAI tries: recommendation.model, then the fallbacks
ModelsToTry(rec) == <<rec.model>> \o rec.fallbacks

\* the recommendation is back: cloud is an error, otherwise build the adapter
RecommendationReturned ==
  /\ facPc = "select"
  /\ selPc \in {"returned", "thrown"}
  /\ IF selPc = "thrown"
     THEN /\ facPc' = "done"
          /\ facResult' = Failure(ErrPropagated)
          /\ UNCHANGED <<providers, current, facIdx, created>>
     ELSE IF recommendationIsCloud(recommendation)
     THEN /\ facPc' = "done"
          /\ facResult' = Failure(ErrNoCompatible)
          /\ UNCHANGED <<providers, current, facIdx, created>>
     ELSE LET p == createProvider(recommendation.technology)
          IN  IF p.threw
              THEN /\ facPc' = "done"
                   /\ facResult' = Failure(ErrUnsupported)
                   /\ UNCHANGED <<providers, current, facIdx, created>>
              ELSE /\ facPc' = "init"
                   /\ providers' = Append(providers, p.adapter)
                   /\ current' = Len(providers) + 1
                   /\ created' = created + 1
                   /\ facIdx' = 1
                   /\ UNCHANGED facResult
  /\ UNCHANGED <<calls, facReq, attempts, activeBefore, activeProvider, selVars>>
  /\ UNCHANGED <<stoVars, detVars, scVars>>
  /\ UNCHANGED lastGeneration

\* provider.initialize(model) returns and isReady is asked when it returned
\* true; on failure the next fallback is tried, after the last one the call
\* fails
InitializeAttempt ==
  /\ facPc = "init"
  /\ \E envOk \in BOOLEAN :
       LET models == ModelsToTry(recommendation)
           r == AdapterInitialize(providers[current], models[facIdx], envOk)
           ready == r.ret /\ AdapterIsReady(r.adapter)
       IN  /\ providers' = [providers EXCEPT ![current] = r.adapter]
           /\ attempts' = Append(attempts,
                [model |-> models[facIdx], provider |-> current,
                 success |-> r.ret, ready |-> ready])
           /\ IF r.threw
              THEN /\ facPc' = "done"
                   /\ facResult' = Failure(ErrPropagated)
                   /\ UNCHANGED <<facIdx, activeProvider>>
              ELSE IF attemptSucceeded(r.ret, ready)
              THEN /\ activeProvider' = current
                   /\ facPc' = "done"
                   /\ facResult' = [kind |-> "ok", msg |-> "", provider |-> current]
                   /\ UNCHANGED facIdx
              ELSE IF facIdx < Len(models)
              THEN /\ facIdx' = facIdx + 1
                   /\ UNCHANGED <<activeProvider, facPc, facResult>>
              ELSE /\ facPc' = "done"
                   /\ facIdx' = facIdx + 1
                   /\ facResult' = Failure(ErrAllFailed)
                   /\ UNCHANGED activeProvider
  /\ UNCHANGED <<calls, facReq, current, created, activeBefore, selVars>>
  /\ UNCHANGED <<stoVars, detVars, scVars>>
  /\ UNCHANGED lastGeneration

\* generateResponse(prompt)
generateResponse ==
  /\ lastGeneration' =
       IF activeProvider = 0
       THEN [NoGeneration EXCEPT !.via = "facade",
                                 !.result = [threw |-> TRUE, msg |-> ErrNoProvider]]
       ELSE [via |-> "facade", active |-> activeProvider, called |-> TRUE,
             adapter |-> providers[activeProvider],
             result |-> AdapterGenerate(providers[activeProvider])]
  /\ UNCHANGED <<calls, selVars, stoVars, detVars, scVars>>
  /\ UNCHANGED <<facPc, facReq, providers, current, facIdx, attempts,
                 created, activeBefore, activeProvider, facResult>>

\* generate(prompt) called on an adapter directly: a newly constructed one
\* or one that initializeAI built
AdapterGenerateCalled ==
  /\ \E adapter \in {NewAdapter(tech) : tech \in Techs}
                       \cup {providers[i] : i \in DOMAIN providers} :
       lastGeneration' =
         [via |-> "direct", active |-> activeProvider, called |-> TRUE,
          adapter |-> adapter, result |-> AdapterGenerate(adapter)]
  /\ UNCHANGED <<calls, selVars, stoVars, detVars, scVars>>
  /\ UNCHANGED <<facPc, facReq, providers, current, facIdx, attempts,
                 created, activeBefore, activeProvider, facResult>>

(***************************************************************************)
(* Capability detection: operations.                                       *)
(***************************************************************************)
\* the synchronous head of detectDeviceCapabilities, up to await getBattery()
BeginDetection(kind, env) ==
  /\ detPc \in {"idle", "done", "thrown"}
  /\ detKind' = kind
  /\ detEnv' = env
  /\ IF env.navigator /\ env.battery = "pending"
     THEN /\ detPc' = "battery"
          /\ detResult' = NoCapabilities
     ELSE IF kind = "basic"
     THEN /\ detPc' = "done"
          /\ detResult' = Baseline(env, "null")
     ELSE /\ detPc' = "probes"
          /\ detResult' = Baseline(env, "null")
  /\ UNCHANGED <<calls, selVars, facVars, stoVars, scVars>>

detectDeviceCapabilities == \E env \in DetectionEnvs : BeginDetection("basic", env)

detectEnhancedCapabilities == \E env \in DetectionEnvs : BeginDetection("enhanced", env)

\* getBattery() resolved or rejected
BatteryReturned ==
  /\ detPc = "battery"
  /\ \E outcome \in BatteryOutcomes :
       /\ detEnv' = [detEnv EXCEPT !.battery = outcome]
       /\ detResult' = Baseline(detEnv', detectBattery(detEnv'))
  /\ detPc' = IF detKind = "basic" THEN "done" ELSE "probes"
  /\ UNCHANGED detKind
  /\ UNCHANGED <<calls, selVars, facVars, stoVars, scVars>>

\* Promise.all over the six probes settled
CapabilityProbesReturned ==
  /\ detPc = "probes"
  /\ \E r \in RuntimeOutcomes :
       /\ detEnv' = WithRuntimes(detEnv, r)
       /\ IF ProbesReject(detEnv')
          THEN /\ detPc' = "thrown"
               /\ detResult' = NoCapabilities
          ELSE /\ detPc' = "done"
               /\ detResult' = Enhanced(detEnv', detResult)
  /\ UNCHANGED detKind
  /\ UNCHANGED <<calls, selVars, facVars, stoVars, scVars>>

(***************************************************************************)
(* Hybrid storage engine: operations.                                      *)
(***************************************************************************)
StoreOf(dataType) ==
  CASE dataType = "vector" -> vectorStore
    [] dataType = "graph" -> graphStore
    [] dataType = "relational" -> relationalStore
    [] OTHER -> {}

\* the item retrieve finds in memory, as a set with at most one element
MemoryLookup(id, type) ==
  IF type # "auto" THEN MapGet(StoreOf(type), id)
  ELSE IF MapGet(vectorStore, id) # {} THEN MapGet(vectorStore, id)
  ELSE IF MapGet(graphStore, id) # {} THEN MapGet(graphStore, id)
  ELSE MapGet(relationalStore, id)

\* the cache fill left out: no store is changed
InsertItemSkipped(dataType, item) ==
  UNCHANGED <<vectorStore, graphStore, relationalStore>>

\* an insertion that empties the two other stores
InsertItemClearingOthers(dataType, item) ==
  /\ vectorStore' = IF dataType = "vector" THEN MapSet(vectorStore, item) ELSE {}
  /\ graphStore' = IF dataType = "graph" THEN MapSet(graphStore, item) ELSE {}
  /\ relationalStore' = IF dataType = "relational"
                        THEN MapSet(relationalStore, item) ELSE {}

\* insertion into the store that matches dataType (the switch of store and
\* of the cache fill of retrieve)
InsertItem(dataType, item) ==
  /\ vectorStore' = IF dataType = "vector" THEN MapSet(vectorStore, item)
                    ELSE vectorStore
  /\ graphStore' = IF dataType = "graph" THEN MapSet(graphStore, item)
                   ELSE graphStore
  /\ relationalStore' = IF dataType = "relational"
                        THEN MapSet(relationalStore, item) ELSE relationalStore

\* what a connector keeps of a payload: its JSON text, read back
RemoteForm(v) ==
  IF v.t = "undefined" THEN v ELSE JSONparse(JSONstringify(v)).v

\* store(data, options); stamp is the clock/random part of the new id
store(data, opts, stamp) ==
  /\ stPc = "idle"
  /\ LET dataType == InferType(data, opts.type)
         id == MakeId(dataType, stamp)
         metadata == MetadataOrDefault(opts.metadata)
         item == [id |-> id, data |-> StoredData(cfg, data),
                  metadata |-> StoredMetadata(cfg, metadata),
                  timestamp |-> stamp]
         payload == [id |-> id, type |-> dataType, data |-> item.data,
                     metadata |-> item.metadata, timestamp |-> stamp]
         targeted == IF shouldSync(cfg, opts)
                     THEN TargetedConnectors(cfg.connectors, ResolvedTargets(cfg, opts))
                     ELSE <<>>
         waits == targeted # <<>> /\ AwaitsSync(cfg, opts)
     IN  /\ InsertItem(dataType, item)
         /\ inflight' = inflight \cup
              { [connector |-> targeted[i].id, payload |-> payload,
                 call |-> StoreCall(storeCalls + 1)] : i \in DOMAIN targeted }
         /\ opCalls' = [i \in DOMAIN targeted |->
                          [connector |-> targeted[i].id, method |-> "store", id |-> id]]
         /\ stPc' = IF waits THEN "storeAwaiting" ELSE "idle"
         /\ stResult' = IF waits THEN NoStResult ELSE Stored(id)
         /\ lastStore' = [id |-> id, type |-> dataType, data |-> data,
                          metadata |-> metadata]
  /\ storeCalls' = storeCalls + 1
  /\ stKind' = "store"
  /\ storeOpts' = opts
  /\ retrArgs' = NoRetrieveArgs
  /\ syncArgs' = NoSyncArgs
  /\ retrThrew' = {}
  /\ UNCHANGED <<cfg, remote, settled, syncCalls, queryArgs, listed>>
  /\ UNCHANGED <<calls, selVars, facVars, detVars, scVars>>

\* the ConnectorSyncResult list of a finished fan-out, in the order of its
\* operations
SyncResults(log, call, done) ==
  [i \in DOMAIN log |->
     LET r == CHOOSE r \in done : r.connector = log[i].connector /\ r.call = call
     IN  [providerId |-> r.connector, success |-> r.success]]

\* a connector's store call settles: it succeeded, reported failure or threw.
\* A store or sync call that awaits the fan-out resumes when the last
\* operation of the fan-out has settled
ConnectorStoreSettles ==
  /\ \E e \in inflight, outcome \in {"ok", "fail", "throw"} :
       LET op == SyncOperation(e.connector, e.call, outcome)
           last == \A o \in inflight \ {e} : o.call # e.call
           awaitedByStore == stPc = "storeAwaiting" /\ e.call = StoreCall(storeCalls)
           awaitedBySync == stPc = "syncAwaiting" /\ e.call = SyncCall(syncCalls)
       IN  /\ inflight' = inflight \ {e}
           /\ settled' = IF op.rejected THEN settled ELSE settled \cup {op.result}
           /\ remote' = IF outcome = "ok"
                        THEN [remote EXCEPT ![e.connector] =
                                MapSet(@, [e.payload EXCEPT
                                             !.data = RemoteForm(@),
                                             !.metadata = RemoteForm(@)])]
                        ELSE remote
           /\ IF op.rejected /\ (awaitedByStore \/ awaitedBySync)
              THEN /\ stPc' = "idle"
                   /\ stResult' = StError(ErrConnector)
              ELSE IF awaitedByStore /\ last
              THEN /\ stPc' = "idle"
                   /\ stResult' = Stored(lastStore.id)
              ELSE IF awaitedBySync /\ last
              THEN /\ stPc' = "idle"
                   /\ stResult' = SyncReturned(SyncResults(opCalls, e.call, settled'))
              ELSE UNCHANGED <<stPc, stResult>>
  /\ UNCHANGED <<cfg, vectorStore, graphStore, relationalStore, storeCalls,
                 stKind, storeOpts, retrArgs, opCalls, lastStore, syncCalls,
                 syncArgs, retrThrew, queryArgs, listed>>
  /\ UNCHANGED <<calls, selVars, facVars, detVars, scVars>>

\* sync(id, targets)
sync(id, targets) ==
  /\ stPc = "idle"
  /\ stKind' = "sync"
  /\ syncCalls' = syncCalls + 1
  /\ syncArgs' = [id |-> id, targets |-> targets]
  /\ storeOpts' = NoStoreOpts
  /\ retrArgs' = NoRetrieveArgs
  /\ retrThrew' = {}
  /\ LET found == MemoryLookup(id, "auto")
     IN  IF Len(cfg.connectors) = 0
         THEN /\ stResult' = SyncReturned(<<>>)
              /\ opCalls' = <<>>
              /\ UNCHANGED <<inflight, stPc>>
         ELSE IF found = {}
         THEN /\ stResult' = StError(ErrNotFoundForSync)
              /\ opCalls' = <<>>
              /\ UNCHANGED <<inflight, stPc>>
         ELSE LET item == CHOOSE i \in found : TRUE
                  type == IF MapGet(vectorStore, id) # {} THEN "vector"
                          ELSE IF MapGet(graphStore, id) # {} THEN "graph"
                          ELSE "relational"
                  payload == [id |-> id, type |-> type, data |-> item.data,
                              metadata |-> item.metadata,
                              timestamp |-> item.timestamp]
                  targeted == TargetedConnectors(cfg.connectors, targets)
              IN  /\ inflight' = inflight \cup
                       { [connector |-> targeted[i].id, payload |-> payload,
                          call |-> SyncCall(syncCalls + 1)] : i \in DOMAIN targeted }
                  /\ opCalls' = [i \in DOMAIN targeted |->
                       [connector |-> targeted[i].id, method |-> "store", id |-> id]]
                  /\ stPc' = IF targeted = <<>> THEN "idle" ELSE "syncAwaiting"
                  /\ stResult' = IF targeted = <<>> THEN SyncReturned(<<>>)
                                 ELSE NoStResult
  /\ UNCHANGED <<cfg, vectorStore, graphStore, relationalStore, storeCalls,
                 remote, settled, lastStore, queryArgs, listed>>
  /\ UNCHANGED <<calls, selVars, facVars, detVars, scVars>>

\* the connector loop left (break) at the first entry that names no usable
\* connector
NextConnectorBreak(config, order, from) ==
  IF from > Len(order) THEN from
  ELSE IF \E i \in DOMAIN config.connectors :
            config.connectors[i].id = order[from] /\ config.connectors[i].hasRetrieve
       THEN from
       ELSE Len(order) + 1

\* position at or after from of the next entry of order that names a
\* configured connector with a retrieve method, Len(order) + 1 when there
\* is none
RECURSIVE NextConnector(_, _, _)
NextConnector(config, order, from) ==
  IF from > Len(order) THEN from
  ELSE IF \E i \in DOMAIN config.connectors :
            config.connectors[i].id = order[from] /\ config.connectors[i].hasRetrieve
       THEN from
       ELSE NextConnector(config, order, from + 1)

\* the connector loop of retrieve from position from: query the next
\* connector, or fail with not found when the order is exhausted
ContinueRetrieve(id, type, source, preferred, order, from, log) ==
  LET next == NextConnector(cfg, order, from)
  IN  /\ retrArgs' = [id |-> id, type |-> type, source |-> source,
                      preferred |-> preferred, order |-> order, idx |-> next]
      /\ IF next <= Len(order)
         THEN /\ stPc' = "retrieving"
              /\ stResult' = NoStResult
              /\ opCalls' = Append(log,
                   [connector |-> order[next], method |-> "retrieve", id |-> id])
         ELSE /\ stPc' = "idle"
              /\ stResult' = StError(ErrNotFound)
              /\ opCalls' = log

\* retrieve(id, options)
retrieve(id, type, source, preferred) ==
  /\ stPc = "idle"
  /\ stKind' = "retrieve"
  /\ storeOpts' = NoStoreOpts
  /\ syncArgs' = NoSyncArgs
  /\ retrThrew' = {}
  /\ LET found == MemoryLookup(id, type)
         order == IF Len(preferred) > 0 THEN preferred
                  ELSE [i \in DOMAIN cfg.connectors |-> cfg.connectors[i].id]
     IN  IF found # {}
         THEN /\ stResult' = RetrieveReturn(cfg, CHOOSE item \in found : TRUE)
              /\ retrArgs' = [id |-> id, type |-> type, source |-> source,
                              preferred |-> preferred, order |-> <<>>, idx |-> 0]
              /\ opCalls' = <<>>
              /\ UNCHANGED stPc
         ELSE IF source = "memory"
         THEN /\ stResult' = StError(ErrNotFound)
              /\ retrArgs' = [id |-> id, type |-> type, source |-> source,
                              preferred |-> preferred, order |-> <<>>, idx |-> 0]
              /\ opCalls' = <<>>
              /\ UNCHANGED stPc
         ELSE IF Len(cfg.connectors) > 0 /\ source \in {"connectors", "all"}
         THEN ContinueRetrieve(id, type, source, preferred, order, 1, <<>>)
         ELSE ContinueRetrieve(id, type, source, preferred, <<>>, 1, <<>>)
  /\ UNCHANGED <<cfg, vectorStore, graphStore, relationalStore, storeCalls,
                 inflight, remote, settled, lastStore, syncCalls, queryArgs,
                 listed>>
  /\ UNCHANGED <<calls, selVars, facVars, detVars, scVars>>

\* one pass of the connector loop with its try/catch left out: a connector
\* that throws makes retrieve reject
RetrieveOperationNoCatch(outcome) ==
  [hit |-> outcome = "hit", rejected |-> outcome = "throw"]

\* one pass of the connector loop of retrieve: the error of a connector
\* that throws is caught and logged
RetrieveOperation(outcome) == [hit |-> outcome = "hit", rejected |-> FALSE]

\* the awaited connector.retrieve returns an item, returns null or throws
ConnectorRetrieveReturns ==
  /\ stPc = "retrieving"
  /\ LET c == retrArgs.order[retrArgs.idx]
         held == MapGet(remote[c], retrArgs.id)
     IN  \E outcome \in (IF held # {} THEN {"hit"} ELSE {"null"}) \cup {"throw"} :
           IF RetrieveOperation(outcome).rejected
           THEN /\ stPc' = "idle"
                /\ stResult' = StError(ErrConnector)
                /\ retrThrew' = retrThrew \cup {c}
                /\ UNCHANGED <<retrArgs, opCalls, vectorStore, graphStore,
                               relationalStore>>
           ELSE IF RetrieveOperation(outcome).hit
           THEN LET retrieved == CHOOSE p \in held : TRUE
                    localItem == [id |-> retrieved.id, data |-> retrieved.data,
                                  metadata |-> retrieved.metadata,
                                  timestamp |-> retrieved.timestamp]
                IN  /\ InsertItem(retrieved.type, localItem)
                    /\ stPc' = "idle"
                    /\ stResult' = RetrieveReturn(cfg, localItem)
                    /\ UNCHANGED <<retrArgs, opCalls, retrThrew>>
           ELSE /\ ContinueRetrieve(retrArgs.id, retrArgs.type, retrArgs.source,
                                    retrArgs.preferred, retrArgs.order,
                                    retrArgs.idx + 1, opCalls)
                /\ retrThrew' = IF outcome = "throw" THEN retrThrew \cup {c}
                                ELSE retrThrew
                /\ UNCHANGED <<vectorStore, graphStore, relationalStore>>
  /\ UNCHANGED <<cfg, storeCalls, inflight, remote, settled, stKind, storeOpts,
                 lastStore, syncCalls, syncArgs, queryArgs, listed>>
  /\ UNCHANGED <<calls, selVars, facVars, detVars, scVars>>

\* the sequences that list the elements of a set once each: the order in
\* which a Map or a directory enumerates its entries
Orderings(S) ==
  { f \in [1..Cardinality(S) -> S] : \A x \in S : \E i \in DOMAIN f : f[i] = x }

\* Array.prototype.slice(0, n)
Take(s, n) == IF Len(s) <= n THEN s ELSE SubSeq(s, 1, n)

\* position at or after from of the next entry of order that names a
\* configured connector with a list method
RECURSIVE NextLister(_, _, _)
NextLister(config, order, from) ==
  IF from > Len(order) THEN from
  ELSE IF \E i \in DOMAIN config.connectors :
            config.connectors[i].id = order[from] /\ config.connectors[i].hasList
       THEN from
       ELSE NextLister(config, order, from + 1)

\* the value query returns: combined.slice(0, limit)
QueryReturn(args, connectorResults) ==
  LET combined == IF args.source = "connectors" THEN connectorResults
                  ELSE IF args.source = "memory" THEN args.memory
                  ELSE args.memory \o connectorResults
  IN  [NoStResult EXCEPT !.kind = "queried", !.results = Take(combined, args.limit)]

\* the connector loop of query from position from: list the next connector,
\* or return when the order is exhausted
ContinueQuery(args, from, connectorResults, log) ==
  LET next == NextLister(cfg, args.order, from)
  IN  /\ queryArgs' = [args EXCEPT !.idx = next]
      /\ listed' = connectorResults
      /\ IF next <= Len(args.order)
         THEN /\ stPc' = "querying"
              /\ stResult' = NoStResult
              /\ opCalls' = Append(log,
                   [connector |-> args.order[next], method |-> "list", id |-> NoId])
         ELSE /\ stPc' = "idle"
              /\ stResult' = QueryReturn(args, connectorResults)
              /\ opCalls' = log

\* query(query, options); the stores hand out their entries in some order
query(type, limit, source, preferred) ==
  /\ stPc = "idle"
  /\ stKind' = "query"
  /\ storeOpts' = NoStoreOpts
  /\ retrArgs' = NoRetrieveArgs
  /\ syncArgs' = NoSyncArgs
  /\ retrThrew' = {}
  /\ \E v \in Orderings({item.id : item \in vectorStore}),
        g \in Orderings({item.id : item \in graphStore}),
        r \in Orderings({item.id : item \in relationalStore}) :
       LET found == IF source \notin {"memory", "all"} THEN <<>>
                    ELSE IF type = "auto" THEN v \o g \o r
                    ELSE IF type = "vector" THEN v
                    ELSE IF type = "graph" THEN g
                    ELSE IF type = "relational" THEN r
                    ELSE <<>>
           memory == [i \in DOMAIN found |-> [id |-> found[i], providerId |-> ""]]
           order == IF Len(cfg.connectors) > 0 /\ source \in {"connectors", "all"}
                    THEN IF Len(preferred) > 0 THEN preferred
                         ELSE [i \in DOMAIN cfg.connectors |-> cfg.connectors[i].id]
                    ELSE <<>>
       IN  ContinueQuery([type |-> type, limit |-> limit, source |-> source,
                          order |-> order, idx |-> 0, memory |-> memory],
                         1, <<>>, <<>>)
  /\ UNCHANGED <<cfg, vectorStore, graphStore, relationalStore, storeCalls,
                 inflight, remote, settled, lastStore, syncCalls>>
  /\ UNCHANGED <<calls, selVars, facVars, detVars, scVars>>

\* the awaited connector.list returns its entries or throws
ConnectorListReturns ==
  /\ stPc = "querying"
  /\ LET c == queryArgs.order[queryArgs.idx]
     IN  \/ \E held \in Orderings({item.id : item \in remote[c]}) :
              ContinueQuery(queryArgs, queryArgs.idx + 1,
                            listed \o [i \in DOMAIN held |->
                                         [id |-> held[i], providerId |-> c]],
                            opCalls)
         \/ ContinueQuery(queryArgs, queryArgs.idx + 1, listed, opCalls)
  /\ UNCHANGED <<cfg, vectorStore, graphStore, relationalStore, storeCalls,
                 inflight, remote, settled, stKind, storeOpts, retrArgs,
                 lastStore, syncCalls, syncArgs, retrThrew>>
  /\ UNCHANGED <<calls, selVars, facVars, detVars, scVars>>

(***************************************************************************)
(* Storage: initial state.                                                  *)
(***************************************************************************)
InitStorage ==
  /\ vectorStore = {}
  /\ graphStore = {}
  /\ relationalStore = {}
  /\ storeCalls = 0
  /\ inflight = {}
  /\ settled = {}
  /\ stPc = "idle"
  /\ stKind = "none"
  /\ storeOpts = NoStoreOpts
  /\ retrArgs = NoRetrieveArgs
  /\ opCalls = <<>>
  /\ stResult = NoStResult
  /\ lastStore = NoLastStore
  /\ syncCalls = 0
  /\ syncArgs = NoSyncArgs
  /\ retrThrew = {}
  /\ queryArgs = NoQueryArgs
  /\ listed = <<>>

(***************************************************************************)
(* Specifications.                                                         *)
(***************************************************************************)
InitCommon ==
  /\ calls = 0
  /\ caller = "direct"
  /\ selPc = "idle"
  /\ selCaps = {}
  /\ selReq = "conversation"
  /\ suitableTechs = <<>>
  /\ selIdx = 0
  /\ probeEnv = [t \in Techs |-> NotProbed]
  /\ probeLog = <<>>
  /\ probeEnds = <<>>
  /\ benchmarks = [t \in Techs |-> NoBenchmark]
  /\ recommendation = NoRecommendation
  /\ facPc = "idle"
  /\ facReq = "conversation"
  /\ providers = <<>>
  /\ current = 0
  /\ facIdx = 0
  /\ attempts = <<>>
  /\ created = 0
  /\ activeBefore = 0
  /\ activeProvider = 0
  /\ facResult = NoResult
  /\ lastGeneration = NoGeneration
  /\ detPc = "idle"
  /\ detKind = "basic"
  /\ detEnv = CHOOSE e \in DetectionEnvs : TRUE
  /\ detResult = NoCapabilities
  /\ scInitialized = FALSE
  /\ scStorage = 0
  /\ scEngines = <<>>
  /\ scCalls = <<>>
  /\ InitStorage

Init ==
  /\ InitCommon
  /\ stackOrder = DeclarationOrder
  /\ cfg = DefaultConfig
  /\ remote = [c \in ConnectorIds |-> {}]

Next ==
  \/ selectOptimalTechnology
  \/ ProbeFinished
  \/ initializeAI
  \/ DetectionReturned
  \/ RecommendationReturned
  \/ InitializeAttempt

Spec == Init /\ [][Next]_vars

\* the same four descriptors declared in any order
InitAnyOrder ==
  /\ InitCommon
  /\ stackOrder \in DeclarationOrders
  /\ cfg = DefaultConfig
  /\ remote = [c \in ConnectorIds |-> {}]

NextSelector ==
  \/ selectOptimalTechnology
  \/ ProbeFinished

SpecAnyOrder == InitAnyOrder /\ [][NextSelector]_vars

\* a selector replaced by a test double: it hands initializeAI a
\* recommendation of its choice, with up to MaxFallbacks fallback models
StubFallbackPool == <<"fallback-1", "fallback-2", "fallback-3", "fallback-4">>
StubRecommendations ==
  { CloudSentinel(req) : req \in {"conversation", "analysis"} }
    \cup [technology : Techs, model : {"primary"}, capability : {"conversation"},
          fallbacks : {SubSeq(StubFallbackPool, 1, n) : n \in 0..MaxFallbacks},
          confidence : {50}]

StubbedSelectionReturned ==
  /\ facPc = "detect"
  /\ facPc' = "select"
  /\ caller' = "facade"
  /\ selPc' = "returned"
  /\ recommendation' \in StubRecommendations
  /\ UNCHANGED <<calls, stackOrder, selCaps, selReq, suitableTechs, selIdx,
                 probeEnv, probeLog, probeEnds, benchmarks,
                 facReq, providers, current, facIdx, attempts, created,
                 activeBefore, activeProvider, facResult>>
  /\ UNCHANGED <<stoVars, detVars, scVars>>
  /\ UNCHANGED lastGeneration

NextStub ==
  \/ initializeAI
  \/ StubbedSelectionReturned
  \/ RecommendationReturned
  \/ InitializeAttempt

SpecStub == Init /\ [][NextStub]_vars

\* initializeAI behind a stubbed selector, with generation requests at any
\* moment
NextGenerate ==
  \/ initializeAI
  \/ StubbedSelectionReturned
  \/ RecommendationReturned
  \/ InitializeAttempt
  \/ generateResponse
  \/ AdapterGenerateCalled

SpecGenerate == Init /\ [][NextGenerate]_vars

\* capability detection on its own, in every environment
NextDetect ==
  \/ detectDeviceCapabilities
  \/ detectEnhancedCapabilities
  \/ BatteryReturned
  \/ CapabilityProbesReturned

SpecDetect == Init /\ [][NextDetect]_vars

(***************************************************************************)
(* Storage specifications.                                                 *)
(***************************************************************************)
\* ids are told apart by the clock reading and random suffix they embed
Stamps == {"t1", "t2"}
MissingId == MakeId("relational", "t0")

\* an engine without connectors, for every encryption level, in an
\* environment with and without window.crypto
CryptoConfigs ==
  { EngineConfig(level, hasCrypto, <<>>, FALSE, <<>>) :
      level \in {"none", "metadata", "full"}, hasCrypto \in BOOLEAN }

CryptoData ==
  { JArr(<<JArr(<<JNum("1"), JNum("2")>>)>>),
    JArr(<<JArr(<<JNum("NaN")>>)>>),
    JObj(<<Field("a", JNum("1"))>>),
    JStr(<<EncryptedPrefix, "x">>) }

CryptoMetadata == { JUndefined, JObj(<<Field("tag", JStr(<<"x">>))>>) }

InitCrypto ==
  /\ InitCommon
  /\ stackOrder = DeclarationOrder
  /\ cfg \in CryptoConfigs
  /\ remote = [c \in ConnectorIds |-> {}]

StoreLocally ==
  /\ storeCalls < MaxStores
  /\ \E data \in CryptoData, metadata \in CryptoMetadata, stamp \in Stamps :
       store(data, [NoStoreOpts EXCEPT !.metadata = metadata], stamp)

RetrieveLocally ==
  /\ storeCalls > 0
  /\ \E id \in {lastStore.id, MissingId},
        type \in {"auto", "vector", "relational"},
        source \in {"memory", "all"} :
       retrieve(id, type, source, <<>>)

NextCrypto ==
  \/ StoreLocally
  \/ RetrieveLocally

SpecCrypto == InitCrypto /\ [][NextCrypto]_vars

\* values whose classification by store is explored
ClassifyData ==
  { JArr(<<JArr(<<JNum("1"), JNum("2")>>), JArr(<<JNum("3"), JNum("4")>>)>>),
    JArr(<<JNum("1"), JArr(<<JNum("2")>>)>>),
    JArr(<<>>),
    JObj(<<Field("nodes", JArr(<<>>)), Field("edges", JArr(<<>>))>>),
    JObj(<<Field("nodes", JNull), Field("edges", JArr(<<>>))>>),
    JObj(<<Field("nodes", JArr(<<>>))>>),
    JObj(<<Field("a", JNum("1"))>>),
    JStr(<<"x">>),
    JNull }

InitClassify ==
  /\ InitCommon
  /\ stackOrder = DeclarationOrder
  /\ cfg \in {DefaultConfig, EngineConfig("full", TRUE, <<>>, FALSE, <<>>)}
  /\ remote = [c \in ConnectorIds |-> {}]

StoreClassified ==
  /\ storeCalls < MaxStores
  /\ \E data \in ClassifyData, type \in {"auto", "graph"}, stamp \in Stamps :
       store(data, [NoStoreOpts EXCEPT !.type = type], stamp)

NextClassify == StoreClassified

SpecClassify == InitClassify /\ [][NextClassify]_vars

\* engines with connectors: an automatic and a manual one, or a single manual
\* one without a retrieve method
ConnectorSetups ==
  { <<Connector("c1", TRUE, TRUE, TRUE), Connector("c2", FALSE, TRUE, FALSE)>>,
    <<Connector("c1", FALSE, FALSE, FALSE)>> }

SyncConfigs ==
  { EngineConfig("none", FALSE, connectors, awaitDefault, defaultTargets) :
      connectors \in ConnectorSetups, awaitDefault \in BOOLEAN,
      defaultTargets \in {<<>>, <<"c2">>} }

\* an item another engine wrote through connector c2
PriorItem ==
  [id |-> MakeId("vector", "t0"), type |-> "vector",
   data |-> JArr(<<JArr(<<JNum("3")>>)>>), metadata |-> JObj(<<>>),
   timestamp |-> "t0"]

InitSync ==
  /\ InitCommon
  /\ stackOrder = DeclarationOrder
  /\ cfg \in SyncConfigs
  /\ remote \in { [c \in ConnectorIds |-> {}],
                  [c \in ConnectorIds |-> IF c = "c2" THEN {PriorItem} ELSE {}] }

SyncTargetChoices ==
  { [given |-> FALSE, ids |-> <<>>],
    [given |-> TRUE, ids |-> <<>>],
    [given |-> TRUE, ids |-> <<"c1", "c2">>] }

StoreSynced ==
  /\ storeCalls < MaxSyncStores
  /\ \E targets \in SyncTargetChoices, skip \in BOOLEAN,
        await \in {"unset", "true", "false"} :
       store(JObj(<<Field("a", JNum("1"))>>),
             [NoStoreOpts EXCEPT !.syncTargets = targets, !.skipSync = skip,
                                 !.awaitSync = await],
             "t1")

RetrieveSynced ==
  /\ \E id \in {PriorItem.id, MissingId},
        source \in {"memory", "all"},
        preferred \in {<<>>, <<"c2", "c1">>} :
       retrieve(id, "auto", source, preferred)

NextSync ==
  \/ StoreSynced
  \/ ConnectorStoreSettles
  \/ RetrieveSynced
  \/ ConnectorRetrieveReturns

SpecSync == InitSync /\ [][NextSync]_vars

\* engines that differ in their connectors; the connectors already hold
\* nothing, or one of them holds an item another engine wrote
RetrieveConfigs ==
  { EngineConfig("none", FALSE, connectors, FALSE, <<>>) :
      connectors \in ConnectorSetups \cup {<<>>} }

InitRetrieve ==
  /\ InitCommon
  /\ stackOrder = DeclarationOrder
  /\ cfg \in RetrieveConfigs
  /\ remote \in { [c \in ConnectorIds |-> IF c \in holders THEN {PriorItem} ELSE {}] :
                    holders \in {{}, {"c1"}, {"c2"}} }

RetrieveRemote ==
  /\ \E id \in {PriorItem.id, MissingId},
        type \in {"auto", "graph"},
        source \in {"memory", "connectors", "all"},
        preferred \in {<<>>, <<"c1">>, <<"c2", "c1">>, <<"zz", "c2">>} :
       retrieve(id, type, source, preferred)

NextRetrieve ==
  \/ RetrieveRemote
  \/ ConnectorRetrieveReturns

SpecRetrieve == InitRetrieve /\ [][NextRetrieve]_vars

\* store calls, their background or awaited fan-out, and sync calls that
\* repeat the synchronisation of an id
InitResync ==
  /\ InitCommon
  /\ stackOrder = DeclarationOrder
  /\ cfg \in RetrieveConfigs
  /\ remote = [c \in ConnectorIds |-> {}]

StoreForResync ==
  /\ storeCalls < MaxSyncStores
  /\ \E skip \in BOOLEAN, await \in {"unset", "true"},
        targets \in { [given |-> FALSE, ids |-> <<>>],
                      [given |-> TRUE, ids |-> <<"c2", "c2">>] } :
       store(JObj(<<Field("a", JNum("1"))>>),
             [NoStoreOpts EXCEPT !.syncTargets = targets, !.skipSync = skip,
                                 !.awaitSync = await],
             "t1")

Resync ==
  /\ syncCalls < MaxSyncs
  /\ \E id \in {lastStore.id, MissingId},
        targets \in {<<>>, <<"c2", "c1">>, <<"c2", "c2", "zz">>} :
       sync(id, targets)

NextResync ==
  \/ StoreForResync
  \/ ConnectorStoreSettles
  \/ Resync

SpecResync == InitResync /\ [][NextResync]_vars

\* every operation of the engine on engines with and without connectors,
\* one of which may hold an item another engine wrote
QueryLimits == {1}

InitEngine ==
  /\ InitCommon
  /\ stackOrder = DeclarationOrder
  /\ cfg \in { EngineConfig("none", FALSE, connectors, FALSE, <<>>) :
                 connectors \in
                   { <<>>,
                     <<Connector("c1", TRUE, TRUE, TRUE),
                       Connector("c2", FALSE, TRUE, FALSE)>> } }
  /\ remote \in { [c \in ConnectorIds |-> {}],
                  [c \in ConnectorIds |-> IF c = "c1" THEN {PriorItem} ELSE {}] }

StoreAny ==
  /\ storeCalls < MaxSyncStores
  /\ \E skip \in BOOLEAN :
       store(JObj(<<Field("a", JNum("1"))>>),
             [NoStoreOpts EXCEPT !.skipSync = skip], "t1")

RetrieveAny ==
  /\ \E id \in {lastStore.id, PriorItem.id},
        type \in {"auto", "graph"},
        source \in {"memory", "all"} :
       retrieve(id, type, source, <<>>)

QueryAny ==
  /\ \E limit \in QueryLimits, source \in {"memory", "connectors", "all"} :
       query("auto", limit, source, <<>>)

SyncAny ==
  /\ syncCalls < MaxSyncs
  /\ \E id \in {lastStore.id, MissingId} :
       sync(id, <<>>)

NextEngine ==
  \/ StoreAny
  \/ ConnectorStoreSettles
  \/ RetrieveAny
  \/ ConnectorRetrieveReturns
  \/ QueryAny
  \/ ConnectorListReturns
  \/ SyncAny

SpecEngine == InitEngine /\ [][NextEngine]_vars

\* engines with two connectors under every encryption level, with and
\* without a usable window.crypto
SecureConfigs ==
  { EngineConfig(level, hasCrypto,
                 <<Connector("c1", TRUE, TRUE, TRUE),
                   Connector("c2", FALSE, TRUE, FALSE)>>, FALSE, <<>>) :
      level \in {"none", "metadata", "full"}, hasCrypto \in BOOLEAN }

InitSecure ==
  /\ InitCommon
  /\ stackOrder = DeclarationOrder
  /\ cfg \in SecureConfigs
  /\ remote = [c \in ConnectorIds |-> {}]

StoreSecure ==
  /\ storeCalls < MaxSyncStores
  /\ \E data \in { JObj(<<Field("a", JNum("1"))>>),
                   JArr(<<JArr(<<JNum("1"), JNum("2")>>)>>) },
        metadata \in CryptoMetadata :
       store(data, [NoStoreOpts EXCEPT !.metadata = metadata], "t1")

SyncSecure ==
  /\ syncCalls < MaxSyncs
  /\ storeCalls > 0
  /\ \E targets \in {<<>>, <<"c2">>} : sync(lastStore.id, targets)

NextSecure ==
  \/ StoreSecure
  \/ ConnectorStoreSettles
  \/ SyncSecure

SpecSecure == InitSecure /\ [][NextSecure]_vars

(***************************************************************************)
(* The SmartClone object of index.ts: initialize and the storage calls     *)
(* that run it when this._storage is not set.  Every await is a step, so   *)
(* calls issued before an earlier initialize has set its fields interleave *)
(* with it.                                                                *)
(***************************************************************************)
FacadeCall(op, pc, arg, engine, known, result) ==
  [op |-> op, pc |-> pc, arg |-> arg, engine |-> engine, known |-> known,
   result |-> result]

\* ids returned by the store calls that have resolved
ResolvedStoreIds ==
  UNION { scCalls[i].result : i \in { j \in DOMAIN scCalls :
                                        /\ scCalls[j].op = "store"
                                        /\ scCalls[j].pc = "resolved" } }

\* initialize(): return at once when initialized is set, else run up to the
\* first await, the capability detection
InitializeEntry == IF scInitialized THEN "returning" ELSE "detecting"

\* if (!this._storage) await this.initialize(); else the engine's method is
\* called on the engine the field holds now
StorageCallEntry(op, arg) ==
  IF scStorage = 0
    THEN FacadeCall(op, InitializeEntry, arg, 0, ResolvedStoreIds, {})
    ELSE FacadeCall(op, "operating", arg, scStorage, ResolvedStoreIds, {})

BeginFacadeCall(call) ==
  /\ scCalls' = Append(scCalls, call)
  /\ UNCHANGED <<scInitialized, scStorage, scEngines>>
  /\ UNCHANGED <<calls, selVars, facVars, stoVars, detVars>>

SmartCloneInitialize ==
  /\ Len(scCalls) < MaxFacadeCalls
  /\ BeginFacadeCall(FacadeCall("initialize", InitializeEntry, 0, 0,
                                ResolvedStoreIds, {}))

SmartCloneStore ==
  /\ Len(scCalls) < MaxFacadeCalls
  /\ BeginFacadeCall(StorageCallEntry("store", 0))

SmartCloneRetrieve ==
  /\ Len(scCalls) < MaxFacadeCalls
  /\ \E id \in ResolvedStoreIds :
       BeginFacadeCall(StorageCallEntry("retrieve", id))

SmartCloneQuery ==
  /\ Len(scCalls) < MaxFacadeCalls
  /\ BeginFacadeCall(StorageCallEntry("query", 0))

\* this._capabilities = await detectEnhancedCapabilities(); the engine
\* factory is called next
DetectionResolves ==
  \E i \in DOMAIN scCalls :
    /\ scCalls[i].pc = "detecting"
    /\ scCalls' = [scCalls EXCEPT ![i].pc = "building"]
    /\ UNCHANGED <<scInitialized, scStorage, scEngines>>
    /\ UNCHANGED <<calls, selVars, facVars, stoVars, detVars>>

\* this._storage = await encryptedHybridStorage({...}): the factory has made
\* an engine with three empty maps; the field now holds it
StorageBuilt ==
  \E i \in DOMAIN scCalls :
    /\ scCalls[i].pc = "building"
    /\ scEngines' = Append(scEngines, {})
    /\ scStorage' = Len(scEngines) + 1
    /\ scCalls' = [scCalls EXCEPT ![i].pc = "activating"]
    /\ UNCHANGED scInitialized
    /\ UNCHANGED <<calls, selVars, facVars, stoVars, detVars>>

\* this._features = await capabilityAwareFeatureActivation({...});
\* this.initialized = true; return this
FeaturesActivated ==
  \E i \in DOMAIN scCalls :
    /\ scCalls[i].pc = "activating"
    /\ scInitialized' = TRUE
    /\ scCalls' = [scCalls EXCEPT ![i].pc = "returning"]
    /\ UNCHANGED <<scStorage, scEngines>>
    /\ UNCHANGED <<calls, selVars, facVars, stoVars, detVars>>

\* the caller of initialize resumes: an initialize call resolves, a storage
\* call invokes the method of the engine this._storage holds at that moment
InitializeReturns ==
  \E i \in DOMAIN scCalls :
    /\ scCalls[i].pc = "returning"
    /\ scCalls' = IF scCalls[i].op = "initialize"
                    THEN [scCalls EXCEPT ![i].pc = "resolved"]
                    ELSE [scCalls EXCEPT ![i].pc = "operating",
                                         ![i].engine = scStorage]
    /\ UNCHANGED <<scInitialized, scStorage, scEngines>>
    /\ UNCHANGED <<calls, selVars, facVars, stoVars, detVars>>

\* the engine's method settles: store puts a new item in the maps of its own
\* engine and returns the id, retrieve and query read the maps of their own
EngineOperationSettles ==
  \E i \in DOMAIN scCalls :
    LET c == scCalls[i]
        held == scEngines[c.engine]
    IN /\ c.pc = "operating"
       /\ scEngines' = IF c.op = "store"
                         THEN [scEngines EXCEPT ![c.engine] = held \cup {i}]
                         ELSE scEngines
       /\ scCalls' = [scCalls EXCEPT
                        ![i].pc = "resolved",
                        ![i].result = CASE c.op = "store" -> {i}
                                        [] c.op = "retrieve" -> {c.arg} \cap held
                                        [] OTHER -> held]
       /\ UNCHANGED <<scInitialized, scStorage>>
       /\ UNCHANGED <<calls, selVars, facVars, stoVars, detVars>>

NextSmartClone ==
  \/ SmartCloneInitialize
  \/ SmartCloneStore
  \/ SmartCloneRetrieve
  \/ SmartCloneQuery
  \/ DetectionResolves
  \/ StorageBuilt
  \/ FeaturesActivated
  \/ InitializeReturns
  \/ EngineOperationSettles

\* new SmartClone(): the constructor's defaults, nothing built yet
InitSmartClone ==
  /\ InitCommon
  /\ stackOrder = DeclarationOrder
  /\ cfg = DefaultConfig
  /\ remote = [c \in ConnectorIds |-> {}]

SpecSmartClone == InitSmartClone /\ [][NextSmartClone]_vars

(***************************************************************************)
(* Properties of the selector.                                             *)
(***************************************************************************)
Range(s) == {s[i] : i \in DOMAIN s}
ListsCapability(t, required) == required \in technologyStack[t].capabilities
FlagsSatisfied(t, caps) == technologyStack[t].requires \subseteq caps
ProbeWouldSucceed(t) == ~probeEnv[t].threw /\ probeEnv[t].latency < 30000
\* technologies that list the capability, have their flags and probe well
Viable ==
  { t \in Techs : /\ ListsCapability(t, selReq)
                  /\ FlagsSatisfied(t, selCaps)
                  /\ ProbeWouldSucceed(t) }
IsSentinel(rec) ==
  /\ rec.technology = "cloud"
  /\ rec.model = "api-fallback"
  /\ rec.fallbacks = <<>>
  /\ rec.confidence = 0
PositionIn(order, t) == CHOOSE i \in DOMAIN order : order[i] = t

\* C1: selectOptimalTechnology never ends by throwing, also when a probe
\* throws, and the technology it returns is a key of technologyStack or "cloud".
C1_SelectNeverThrows ==
  /\ selPc # "thrown"
  /\ selPc = "returned" => recommendation.technology \in Techs \cup {"cloud"}

\* a selection in which a probe threw and a later candidate was returned
C1_Witness ==
  /\ selPc = "returned"
  /\ recommendation.technology \in Techs
  /\ \E i \in DOMAIN probeEnds : probeEnds[i].threw

\* C2: the returned recommendation is the sentinel (cloud, api-fallback, no
\* fallbacks, confidence 0) exactly when no technology lists the required
\* capability, has its flags true and probes successfully; in particular it
\* is the sentinel when no technology lists the required capability.
C2_SentinelExactlyWhenNoneViable ==
  selPc = "returned" =>
    /\ IsSentinel(recommendation) <=> Viable = {}
    /\ recommendation.technology = "cloud" => IsSentinel(recommendation)
    /\ (\A t \in Techs : ~ListsCapability(t, selReq)) => IsSentinel(recommendation)

\* the sentinel returned after the probe of an eligible candidate failed
C2_Witness ==
  /\ selPc = "returned"
  /\ IsSentinel(recommendation)
  /\ probeEnds # <<>>

\* C3: of two technologies that both list the capability, have their flags
\* and probe successfully, the one of lower priority rank is returned,
\* whatever the declaration order of the stack.
C3_LowerRankWins ==
  selPc = "returned" =>
    /\ Viable # {} => recommendation.technology \in Viable
    /\ \A a, b \in Viable :
         technologyStack[a].priority < technologyStack[b].priority
           => recommendation.technology # b

\* two viable technologies, the higher-ranked number declared first, and the
\* lower-ranked number returned
C3_Witness ==
  /\ selPc = "returned"
  /\ \E a, b \in Viable :
       /\ technologyStack[a].priority < technologyStack[b].priority
       /\ PositionIn(stackOrder, b) < PositionIn(stackOrder, a)
       /\ recommendation.technology = a

\* C4: no probe is started for a technology that does not list the required
\* capability or has a required flag false; such a technology is skipped and
\* the candidates after it are still considered.
C4_IneligibleNeverProbed ==
  /\ \A i \in DOMAIN probeLog :
       /\ ListsCapability(probeLog[i], selReq)
       /\ FlagsSatisfied(probeLog[i], selCaps)
  /\ selPc = "returned" =>
       \A t \in Techs :
         ListsCapability(t, selReq) /\ FlagsSatisfied(t, selCaps) =>
           \/ t \in Range(probeLog)
           \/ /\ recommendation.technology \in Techs
              /\ technologyStack[recommendation.technology].priority
                   < technologyStack[t].priority

\* transformers lacks its flag and is skipped, webllm is probed
C4_Witness ==
  /\ selReq = "conversation"
  /\ "webassembly" \notin selCaps
  /\ probeLog = <<"webllm">>
  /\ selPc = "returned"

(***************************************************************************)
(* Properties of the facade.                                               *)
(***************************************************************************)
AttemptOk(a) == a.success /\ a.ready

\* C5: when the selector returns the cloud sentinel, initializeAI fails with
\* the "No compatible on-device AI technology available" error, constructs no
\* adapter, calls neither initialize nor isReady, and leaves the active
\* provider as it was.
C5_CloudFailsWithoutProvider ==
  facPc = "done" /\ recommendation.technology = "cloud" =>
    /\ facResult.kind = "error"
    /\ facResult.msg = "No compatible on-device AI technology available"
    /\ created = 0
    /\ attempts = <<>>
    /\ activeProvider = activeBefore

\* a cloud recommendation reaching a facade that already has an active provider
C5_Witness ==
  /\ facPc = "done"
  /\ recommendation.technology = "cloud"
  /\ activeBefore # 0
  /\ activeProvider = activeBefore

\* C6: the models are tried in the order primary, then fallbacks in list
\* order, each at most once and all on the one adapter built for the call;
\* every attempt before the last one failed, and the call ends at the first
\* attempt that is successful and ready, or after the last model.
C6_FallbacksInOrderUntilFirstSuccess ==
  current # 0 =>
    LET models == <<recommendation.model>> \o recommendation.fallbacks
    IN  /\ created = 1
        /\ Len(attempts) <= Len(models)
        /\ \A i \in DOMAIN attempts :
             /\ attempts[i].model = models[i]
             /\ attempts[i].provider = current
             /\ i < Len(attempts) => ~AttemptOk(attempts[i])
        /\ facPc = "init" =>
             /\ \A i \in DOMAIN attempts : ~AttemptOk(attempts[i])
             /\ Len(attempts) < Len(models)
        /\ facPc = "done" =>
             /\ attempts # <<>>
             /\ \/ AttemptOk(attempts[Len(attempts)])
                \/ Len(attempts) = Len(models)

\* the primary model failed, the first of two fallbacks succeeded and the
\* second fallback was not tried
C6_Witness ==
  /\ facPc = "done"
  /\ facResult.kind = "ok"
  /\ Len(recommendation.fallbacks) = 2
  /\ Len(attempts) = 2
  /\ ~AttemptOk(attempts[1])
  /\ AttemptOk(attempts[2])

\* C7: when the primary model and every fallback fail, initializeAI fails
\* with "All AI initialization attempts failed" and with no other error, and
\* the active provider is not changed.
C7_AllAttemptsFailed ==
  facPc = "done" /\ attempts # <<>>
    /\ (\A i \in DOMAIN attempts : ~AttemptOk(attempts[i])) =>
      /\ facResult.kind = "error"
      /\ facResult.msg = "All AI initialization attempts failed"
      /\ Len(attempts) = 1 + Len(recommendation.fallbacks)
      /\ activeProvider = activeBefore

\* primary and fallback both failed on a facade that had an active provider
C7_Witness ==
  /\ facPc = "done"
  /\ Len(attempts) = 2
  /\ \A i \in DOMAIN attempts : ~AttemptOk(attempts[i])
  /\ facResult.msg = "All AI initialization attempts failed"
  /\ activeBefore # 0
(***************************************************************************)
(* Properties of the storage engine.                                       *)
(***************************************************************************)
\* the last operation is a retrieve of the id the last store returned, with
\* type auto or the type the item was stored under
RetrievedLastStored ==
  /\ storeCalls > 0
  /\ stKind = "retrieve"
  /\ stPc = "idle"
  /\ retrArgs.id = lastStore.id
  /\ retrArgs.type \in {"auto", lastStore.type}

\* the item the last store call put into the in-memory store
LastStoredItem == MapGet(StoreOf(lastStore.type), lastStore.id)

\* C8: for every encryptionLevel, with or without an encryption key, store
\* followed by retrieve of the returned id (type auto or the matching type)
\* returns data and metadata equal to the values passed to store.
C8_RoundTrip ==
  RetrievedLastStored =>
    /\ stResult.kind = "retrieved"
    /\ stResult.data = lastStore.data
    /\ stResult.metadata = lastStore.metadata

\* C9: with encryptionLevel full, the data field of the item held in the
\* in-memory store after store(data) differs from the input data, and
\* retrieve still returns the original value.
C9_FullLevelTransforms ==
  (cfg.encryptionLevel = "full" /\ storeCalls > 0) =>
    /\ \A item \in LastStoredItem : item.data # lastStore.data
    /\ RetrievedLastStored =>
         (stResult.kind = "retrieved" /\ stResult.data = lastStore.data)

\* C10: a store call with skipSync: true invokes no method of any connector,
\* whatever syncTargets, awaitSync, the default sync targets and the
\* connectors' autoSync flags are.
C10_SkipSyncInvokesNoConnector ==
  (stKind = "store" /\ storeOpts.skipSync) =>
    /\ opCalls = <<>>
    /\ stPc = "idle"
    /\ \A e \in inflight : e.call # StoreCall(storeCalls)
    /\ \A r \in settled : r.call # StoreCall(storeCalls)

\* a skipSync store returned although explicit targets, awaitSync, default
\* targets and an autoSync connector all ask for synchronisation
C10_Witness ==
  /\ stKind = "store"
  /\ stResult.kind = "stored"
  /\ storeOpts.skipSync
  /\ storeOpts.syncTargets.given /\ Len(storeOpts.syncTargets.ids) > 0
  /\ storeOpts.awaitSync = "true"
  /\ Len(cfg.defaultSyncTargets) > 0
  /\ \E i \in DOMAIN cfg.connectors : cfg.connectors[i].autoSync
  /\ opCalls = <<>>

\* the last store call asked to wait for synchronisation: awaitSync true, or
\* awaitSync unset on an engine whose awaitSyncByDefault is true
AwaitRequested ==
  \/ storeOpts.awaitSync = "true"
  \/ storeOpts.awaitSync = "unset" /\ cfg.awaitSyncByDefault

\* C11: a store call with awaitSync true (or with the store-wide default true
\* and awaitSync unset) has not resolved while a store call of a targeted
\* connector is unsettled; with awaitSync false the store call resolves without
\* waiting for any connector call.
C11_AwaitedStoreWaitsForConnectors ==
  stKind = "store" =>
    /\ (AwaitRequested /\ stResult.kind = "stored") =>
         \A e \in inflight : e.call # StoreCall(storeCalls)
    /\ storeOpts.awaitSync = "false" => stResult.kind = "stored"

\* a store awaited through the default resolved after both of its connector
\* calls settled, one with success and one with failure
C11_Witness ==
  /\ stKind = "store"
  /\ storeOpts.awaitSync = "unset" /\ cfg.awaitSyncByDefault
  /\ stResult.kind = "stored"
  /\ \E r1, r2 \in settled :
       /\ r1.call = StoreCall(storeCalls) /\ r2.call = StoreCall(storeCalls)
       /\ r1.connector # r2.connector
       /\ r1.success /\ ~r2.success

\* C12: a connector failure during the synchronisation of a store call (a
\* thrown error or a success: false result) never makes store reject and never
\* removes the locally inserted item: store resolves with the new id, in the
\* background case and in the awaited case alike.
C12_ConnectorFailureNeverSurfaces ==
  /\ storeCalls > 0 => LastStoredItem # {}
  /\ stKind = "store" =>
       /\ stResult.kind # "error"
       /\ stPc = "idle" => stResult = Stored(lastStore.id)

\* an awaited store resolved with its id although every connector call of
\* its fan-out failed
C12_Witness ==
  /\ stKind = "store"
  /\ storeOpts.awaitSync = "true"
  /\ stResult = Stored(lastStore.id)
  /\ LastStoredItem # {}
  /\ Len(opCalls) = 2
  /\ \A i \in DOMAIN opCalls :
       \E r \in settled :
         /\ r.connector = opCalls[i].connector
         /\ r.call = StoreCall(storeCalls)
         /\ ~r.success

\* the last store call ran with type 'auto': its item lies in the store of
\* type expected and nowhere else, and the returned id carries that type
ClassifiedAs(expected) ==
  /\ lastStore.type = expected
  /\ stResult = Stored(lastStore.id)
  /\ lastStore.id.type = expected
  /\ MapGet(StoreOf(expected), lastStore.id) # {}
  /\ \A other \in {"vector", "graph", "relational"} \ {expected} :
       MapGet(StoreOf(other), lastStore.id) = {}

\* an array with an array among its elements
IsNestedArray(v) ==
  v.t = "array" /\ \E i \in DOMAIN v.items : v.items[i].t = "array"

\* an object that has the field key, whatever its value
HasField(v, key) ==
  v.t = "object" /\ \E i \in DOMAIN v.fields : v.fields[i].k = key

\* C13 as stated: with type 'auto', store classifies a nested array as vector,
\* an object that has both a nodes field and an edges field as graph, and
\* every other value as relational; the item is inserted into the store of
\* that type and the returned id carries that type as its prefix.
C13_ClassifiesByShape ==
  (stKind = "store" /\ storeOpts.type = "auto") =>
    ClassifiedAs(IF IsNestedArray(lastStore.data) THEN "vector"
                 ELSE IF HasField(lastStore.data, "nodes")
                         /\ HasField(lastStore.data, "edges") THEN "graph"
                 ELSE "relational")

\* C13 amended: with type 'auto', store classifies a non-empty array whose
\* first element is an array as vector, otherwise an object whose nodes and
\* edges values are both truthy as graph (so {nodes: [], edges: []} is a
\* graph), and every other value as relational; the item is inserted into the
\* store of that type and the returned id carries that type as its prefix.
C13_ClassifiesByFirstElementAndTruthiness ==
  (stKind = "store" /\ storeOpts.type = "auto") =>
    LET data == lastStore.data
    IN  ClassifiedAs(
          IF data.t = "array" /\ data.items # <<>> /\ Head(data.items).t = "array"
          THEN "vector"
          ELSE IF /\ data.t = "object"
                  /\ HasField(data, "nodes") /\ Truthy(GetField(data, "nodes"))
                  /\ HasField(data, "edges") /\ Truthy(GetField(data, "edges"))
          THEN "graph"
          ELSE "relational")

\* an object with a null nodes field and an edges field was stored with type
\* 'auto' and landed in the relational store
C13_Witness ==
  /\ stKind = "store"
  /\ storeOpts.type = "auto"
  /\ HasField(lastStore.data, "nodes") /\ HasField(lastStore.data, "edges")
  /\ ~Truthy(GetField(lastStore.data, "nodes"))
  /\ MapGet(relationalStore, lastStore.id) # {}
  /\ stResult = Stored(lastStore.id)

\* the last operation is a finished retrieve
RetrieveDone == stKind = "retrieve" /\ stPc = "idle"

\* the configured connectors that have a retrieve method, hold the id asked
\* for and did not throw during the last retrieve
CanReturn ==
  { cfg.connectors[i].id : i \in
      { i \in DOMAIN cfg.connectors :
          /\ cfg.connectors[i].hasRetrieve
          /\ MapGet(remote[cfg.connectors[i].id], retrArgs.id) # {}
          /\ cfg.connectors[i].id \notin retrThrew } }

\* the connectors the last retrieve was asked to consult: options.connectors
\* when it is a non-empty list, every configured connector otherwise
Consulted ==
  IF Len(retrArgs.preferred) > 0 THEN Range(retrArgs.preferred)
  ELSE { cfg.connectors[i].id : i \in DOMAIN cfg.connectors }

\* the id asked for has no copy in the in-memory store the lookup reads
NotInMemory == MemoryLookup(retrArgs.id, retrArgs.type) = {}

\* what C14 says of a memory miss under source 'memory' and of an id that
\* nobody holds
MissesAreNotFound ==
  /\ (RetrieveDone /\ retrArgs.source = "memory" /\ NotInMemory) =>
       stResult = StError(ErrNotFound)
  /\ (RetrieveDone /\ NotInMemory
        /\ \A c \in ConnectorIds : MapGet(remote[c], retrArgs.id) = {}) =>
       stResult = StError(ErrNotFound)
  /\ stPc = "retrieving" => (NotInMemory /\ retrArgs.source \in {"connectors", "all"})

\* C14 as stated: for an id that has no in-memory copy but that some
\* configured connector can return, retrieve succeeds when source is 'all' or
\* 'connectors' and fails with "not found" when source is 'memory'; when
\* neither memory nor any connector has the id, retrieve fails with "not
\* found" for every source.
C14_ConnectorCopyIsRetrieved ==
  /\ MissesAreNotFound
  /\ (RetrieveDone /\ retrArgs.source \in {"connectors", "all"} /\ CanReturn # {}) =>
       (stResult.kind = "retrieved" /\ stResult.id = retrArgs.id)

\* C14 amended: for an id that has no in-memory copy but that some configured
\* connector among those the call consults (the connectors option when it is
\* a non-empty list, all configured connectors otherwise) can return,
\* retrieve succeeds when source is 'all' or 'connectors' and fails with "not
\* found" when source is 'memory'; when neither memory nor any connector has
\* the id, retrieve fails with "not found" for every source.
C14_ConsultedConnectorCopyIsRetrieved ==
  /\ MissesAreNotFound
  /\ (RetrieveDone /\ retrArgs.source \in {"connectors", "all"}
        /\ CanReturn \cap Consulted # {}) =>
       (stResult.kind = "retrieved" /\ stResult.id = retrArgs.id)

\* a retrieve with source 'connectors' was answered by the second connector
\* of its order after the first entry named no configured connector
C14_Witness ==
  /\ RetrieveDone
  /\ retrArgs.source = "connectors"
  /\ retrArgs.order = <<"zz", "c2">>
  /\ opCalls = <<[connector |-> "c2", method |-> "retrieve", id |-> retrArgs.id]>>
  /\ stResult.kind = "retrieved"
  /\ stResult.id = PriorItem.id

\* C15: sync(id, targets) fails with a "not found" error whenever the id has
\* no copy in any in-memory store, for every connector configuration
\* (including an engine built with no connectors) and every targets argument,
\* and invokes no connector in that case.
C15_SyncOfUnknownIdFails ==
  (stKind = "sync" /\ MemoryLookup(syncArgs.id, "auto") = {}) =>
    /\ stResult = StError(ErrNotFoundForSync)
    /\ opCalls = <<>>
    /\ \A e \in inflight : e.call # SyncCall(syncCalls)

\* the last operation started a connector fan-out: a store that was not told
\* to skip synchronisation, or a sync of an id held in memory, on an engine
\* with connectors
FanOutStarted ==
  /\ Len(cfg.connectors) > 0
  /\ \/ stKind = "store" /\ ~storeOpts.skipSync
     \/ stKind = "sync" /\ MemoryLookup(syncArgs.id, "auto") # {}

\* the fan-out of the last operation and the target list it was given
LastFanOut ==
  IF stKind = "store" THEN StoreCall(storeCalls) ELSE SyncCall(syncCalls)
LastTargets ==
  IF stKind = "sync" THEN syncArgs.targets
  ELSE IF storeOpts.syncTargets.given THEN storeOpts.syncTargets.ids
  ELSE cfg.defaultSyncTargets

\* the connectors the fan-out is to reach: the configured connectors named
\* in a non-empty target list, the autoSync connectors otherwise
TargetedIds ==
  { cfg.connectors[i].id : i \in
      { i \in DOMAIN cfg.connectors :
          IF LastTargets # <<>> THEN cfg.connectors[i].id \in Range(LastTargets)
          ELSE cfg.connectors[i].autoSync } }

\* C16: in a connector fan-out (store's synchronisation or sync), every
\* targeted connector's store is invoked exactly once whatever the outcome of
\* the other connectors, no other connector is invoked, each invocation
\* settles into exactly one result of its own, and the result list of a
\* finished sync holds exactly one entry per targeted connector carrying that
\* connector's success or failure.
C16_FanOutReachesEveryTargetOnce ==
  FanOutStarted =>
    /\ \A i \in DOMAIN opCalls :
         opCalls[i].connector \in TargetedIds /\ opCalls[i].method = "store"
    /\ \A c \in TargetedIds :
         LET pending == \E e \in inflight : e.connector = c /\ e.call = LastFanOut
             done == {r \in settled : r.connector = c /\ r.call = LastFanOut}
         IN  /\ Cardinality({i \in DOMAIN opCalls : opCalls[i].connector = c}) = 1
             /\ IF pending THEN done = {} ELSE Cardinality(done) = 1
             /\ \A r \in done : r.success => MapGet(remote[c], opCalls[1].id) # {}
    /\ (stKind = "sync" /\ stPc = "idle") =>
         /\ stResult.kind = "synced"
         /\ Len(stResult.results) = Cardinality(TargetedIds)
         /\ \A c \in TargetedIds :
              \E i \in DOMAIN stResult.results :
                /\ stResult.results[i].providerId = c
                /\ [connector |-> c, call |-> LastFanOut,
                    success |-> stResult.results[i].success] \in settled

\* a sync call returned two results, a failure and a success, for the two
\* connectors its target list names
C16_Witness ==
  /\ stKind = "sync"
  /\ stPc = "idle"
  /\ Cardinality(TargetedIds) = 2
  /\ Len(stResult.results) = 2
  /\ \E i, j \in DOMAIN stResult.results :
       stResult.results[i].success /\ ~stResult.results[j].success

(***************************************************************************)
(* Properties of generation.                                               *)
(***************************************************************************)
\* C17: no generation is served by an uninitialized provider: generate on an
\* adapter on which initialize has never been called fails with that
\* adapter's "not initialized" error, and generateResponse on a facade with
\* no active provider fails with "No AI provider initialized" without calling
\* any adapter.
C17_NoGenerationBeforeInitialize ==
  /\ (lastGeneration.called
        /\ lastGeneration.adapter = NewAdapter(lastGeneration.adapter.tech)) =>
       lastGeneration.result =
         [threw |-> TRUE, msg |-> ErrNotInitialized(lastGeneration.adapter.tech)]
  /\ (lastGeneration.via = "facade" /\ lastGeneration.active = 0) =>
       /\ ~lastGeneration.called
       /\ lastGeneration.result = [threw |-> TRUE, msg |-> ErrNoProvider]
  /\ (lastGeneration.via # "none" /\ ~lastGeneration.result.threw) =>
       /\ lastGeneration.called
       /\ lastGeneration.adapter.loaded

\* generateResponse was refused on a facade whose only initializeAI call
\* built an adapter and failed, so that no provider is active
C17_Witness ==
  /\ lastGeneration.via = "facade"
  /\ lastGeneration.active = 0
  /\ ~lastGeneration.called
  /\ lastGeneration.result = [threw |-> TRUE, msg |-> ErrNoProvider]
  /\ facResult = Failure(ErrAllFailed)
  /\ providers # <<>>

(***************************************************************************)
(* Properties of capability detection.                                     *)
(***************************************************************************)
\* C18: capability detection always ends with a capability set and never
\* throws: when an individual probe (GPU context, battery, or a
\* runtime-library import) fails, only that probe's flag takes its
\* negative/default value and every other flag is reported as the
\* environment has it.
C18_DetectionNeverThrows ==
  /\ detPc # "thrown"
  /\ detPc = "done" =>
       /\ detResult.kind = detKind
       /\ detResult.cores >= 1
       /\ detResult.gpu.supported =
            (detEnv.document /\ detEnv.canvas \in {"webgl", "webgl2"})
       /\ detResult.gpu.webgl2 = (detEnv.document /\ detEnv.canvas = "webgl2")
       /\ (detEnv.renderer = "throws" /\ detResult.gpu.supported) =>
            detResult.gpu.type = "integrated"
       /\ detResult.battery = IF detEnv.battery = "ok" THEN "reported" ELSE "null"
       /\ detKind = "enhanced" =>
            /\ detResult.webgpu = (detEnv.navigator /\ detEnv.navigatorGpu)
            /\ detResult.webgl2 = (detEnv.document /\ detEnv.canvas = "webgl2")
            /\ detResult.webassembly = detEnv.webassembly
            /\ detResult.tensorflowjs = (detEnv.tensorflow = "ok")
            /\ detResult.onnxjs = (detEnv.onnx = "ok")
            /\ detResult.transformersjs = (detEnv.transformers = "ok")
            /\ detResult.cpuCores >= 1

\* an enhanced detection ended although the GPU context threw, getBattery
\* rejected and tf.ready() rejected: the other runtimes are still reported
C18_Witness ==
  /\ detPc = "done"
  /\ detKind = "enhanced"
  /\ detEnv.canvas = "throws"
  /\ detEnv.battery = "rejects"
  /\ detEnv.tensorflow = "ready rejects"
  /\ ~detResult.tensorflowjs /\ ~detResult.gpu.supported /\ detResult.battery = "null"
  /\ detResult.onnxjs /\ detResult.transformersjs /\ detResult.webassembly
  /\ detResult.webgpu

(***************************************************************************)
(* Properties of the benchmark record.                                     *)
(***************************************************************************)
\* C19: the benchmarks map is changed only by successful probes: a step
\* changes it only when it is the end of a probe that succeeded, and then
\* only the entry of the probed technology; a probe that throws and a probe
\* that completes with a latency not below 30000 ms leave it unchanged.
C19_OnlySuccessfulProbesChangeBenchmarks ==
  [][ benchmarks' # benchmarks =>
        /\ Len(probeEnds') = Len(probeEnds) + 1
        /\ probeEnds'[Len(probeEnds')].success
        /\ \A t \in Techs \ {probeEnds'[Len(probeEnds')].tech} :
             benchmarks'[t] = benchmarks[t] ]_vars

\* the later eligible candidates of the running selection, by priority rank
LaterEligible(t) ==
  { u \in Techs : /\ ListsCapability(u, selReq)
                  /\ FlagsSatisfied(u, selCaps)
                  /\ technologyStack[u].priority > technologyStack[t].priority }

IsNextEligible(t, u) ==
  /\ u \in LaterEligible(t)
  /\ \A w \in LaterEligible(t) :
       technologyStack[u].priority <= technologyStack[w].priority

\* C20: a probe counts as successful exactly when it completes without
\* throwing and with a latency below 30000 ms; after a failed probe the
\* selector goes on with the next candidate, in priority order, that lists
\* the capability and has its flags; it neither throws nor returns the
\* failed technology, and returns the sentinel only when no later candidate
\* is eligible.
C20_FailedProbeAdvances ==
  /\ selPc # "thrown"
  /\ \A i \in DOMAIN probeEnds :
       LET t == probeEnds[i].tech
       IN  /\ probeEnds[i].success <=>
                (~probeEnv[t].threw /\ probeEnv[t].latency < 30000)
           /\ probeEnds[i].success =>
                /\ i = Len(probeEnds)
                /\ selPc = "returned"
                /\ recommendation.technology = t
           /\ (~probeEnds[i].success /\ i < Len(probeEnds)) =>
                IsNextEligible(t, probeEnds[i + 1].tech)
           /\ (~probeEnds[i].success /\ i = Len(probeEnds)) =>
                \/ /\ selPc = "probing"
                   /\ IsNextEligible(t, suitableTechs[selIdx])
                \/ /\ selPc = "returned"
                   /\ LaterEligible(t) = {}
                   /\ IsSentinel(recommendation)

\* a probe that completed at exactly 30000 ms failed and the next eligible
\* candidate was probed and returned
C20_Witness ==
  /\ selPc = "returned"
  /\ Len(probeEnds) = 2
  /\ ~probeEnds[1].success
  /\ ~probeEnds[1].threw
  /\ probeEnv[probeEnds[1].tech].latency = 30000
  /\ probeEnds[2].success
  /\ recommendation.technology = probeEnds[2].tech

(***************************************************************************)
(* Properties of the probe sequence.                                       *)
(***************************************************************************)
\* C21: within one selectOptimalTechnology call the probes run one after
\* another in ascending priority rank: at most one probe is in flight, a
\* probe starts only when every earlier one has finished, and the call
\* returns at the first successful probe, so that no technology ranked
\* after the winner is probed in that call.
C21_ProbesSequentialUntilFirstSuccess ==
  /\ Len(probeLog) = Len(probeEnds) + (IF selPc = "probing" THEN 1 ELSE 0)
  /\ \A i \in DOMAIN probeEnds : probeEnds[i].tech = probeLog[i]
  /\ \A i, j \in DOMAIN probeLog :
       i < j => technologyStack[probeLog[i]].priority
                  < technologyStack[probeLog[j]].priority
  /\ \A i \in DOMAIN probeEnds : probeEnds[i].success => i = Len(probeLog)
  /\ (selPc = "returned" /\ recommendation.technology \in Techs) =>
       /\ probeLog # <<>>
       /\ recommendation.technology = probeLog[Len(probeLog)]
       /\ probeEnds[Len(probeEnds)].success
       /\ \A t \in Range(probeLog) :
            technologyStack[t].priority
              <= technologyStack[recommendation.technology].priority

\* transformers won its probe although webllm was eligible and would have
\* probed well too: webllm was not probed
C21_Witness ==
  /\ selPc = "returned"
  /\ recommendation.technology = "transformers"
  /\ ListsCapability("webllm", selReq)
  /\ FlagsSatisfied("webllm", selCaps)
  /\ ProbeWouldSucceed("webllm")
  /\ probeLog = <<"transformers">>

(***************************************************************************)
(* Properties of the confidence.                                           *)
(***************************************************************************)
\* latencies a successful probe can record, in ms
RecordedLatencies == {0, 1, 299, 300, 5999, 6000, 15000, 29400, 29999}

\* C22: the confidence of every returned recommendation lies in [0, 1]
\* (0..100 hundredths); it is 0 exactly for the cloud sentinel and at least
\* 0.1 for every descriptor-backed recommendation, for every priority rank
\* and every recorded probe latency below 30000 ms.
C22_ConfidenceInUnitInterval ==
  /\ selPc = "returned" =>
       /\ recommendation.confidence \in 0..100
       /\ recommendation.confidence = 0 <=> recommendation.technology = "cloud"
       /\ recommendation.technology \in Techs => recommendation.confidence >= 10
  /\ \A priority \in 1..MaxRank, latency \in RecordedLatencies \cup {NoBenchmark} :
       calculateConfidence(priority, latency) \in 10..100

\* transformers (rank 1) returned after a probe of 0 ms: 1 + 0.4 is capped at 1
C22_Witness ==
  /\ selPc = "returned"
  /\ recommendation.technology = "transformers"
  /\ benchmarks["transformers"] = 0
  /\ recommendation.confidence = 100

(***************************************************************************)
(* Properties of the fan-out of store.                                     *)
(***************************************************************************)
\* ids of the connectors the last operation invoked
InvokedIds == {opCalls[i].connector : i \in DOMAIN opCalls}

ConfiguredIds == {cfg.connectors[i].id : i \in DOMAIN cfg.connectors}

AutoSyncIds ==
  {cfg.connectors[i].id : i \in {j \in DOMAIN cfg.connectors : cfg.connectors[j].autoSync}}

\* the last operation is a store call that synchronises
StoreSynchronises ==
  stKind = "store" /\ Len(cfg.connectors) > 0 /\ ~storeOpts.skipSync

\* C23 as stated: when connectors exist and skipSync is not set, store
\* invokes exactly the connectors whose id is in the syncTargets option when
\* that option is given and otherwise exactly the connectors whose autoSync
\* flag is true.
C23_StoreTargetsOptionElseAutoSync ==
  StoreSynchronises =>
    InvokedIds = IF storeOpts.syncTargets.given
                 THEN ConfiguredIds \cap Range(storeOpts.syncTargets.ids)
                 ELSE AutoSyncIds

\* the target list store resolves: the syncTargets option when given, else
\* the engine's defaultSyncTargets
ResolvedTargetList ==
  IF storeOpts.syncTargets.given THEN storeOpts.syncTargets.ids
  ELSE cfg.defaultSyncTargets

\* C23: when connectors exist and skipSync is not set, store invokes, once
\* each, exactly the connectors whose id is in the resolved target list (the
\* syncTargets option when given, else the engine's defaultSyncTargets) when
\* that list is not empty, and exactly the connectors whose autoSync flag is
\* true when it is empty; no other connector is invoked.
C23_StoreTargetsResolvedListElseAutoSync ==
  StoreSynchronises =>
    /\ InvokedIds = IF ResolvedTargetList # <<>>
                    THEN ConfiguredIds \cap Range(ResolvedTargetList)
                    ELSE AutoSyncIds
    /\ Len(opCalls) = Cardinality(InvokedIds)
    /\ \A i \in DOMAIN opCalls :
         opCalls[i].method = "store" /\ opCalls[i].id = lastStore.id

\* a store without the syncTargets option on an engine whose default target
\* list names c2: c2 alone is invoked although c1 has autoSync
C23_Witness ==
  /\ StoreSynchronises
  /\ ~storeOpts.syncTargets.given
  /\ cfg.defaultSyncTargets = <<"c2">>
  /\ "c1" \in AutoSyncIds
  /\ InvokedIds = {"c2"}

(***************************************************************************)
(* Properties of the cache fill of retrieve.                               *)
(***************************************************************************)
\* the in-memory copies of id, whatever store they are in
CachedCopies(id) ==
  MapGet(vectorStore, id) \cup MapGet(graphStore, id) \cup MapGet(relationalStore, id)

\* the last retrieve returned an item a connector gave it
ReturnedConnectorHit ==
  RetrieveDone /\ stResult.kind = "retrieved" /\ opCalls # <<>>

\* the last retrieve asked memory only for an id that a connector hit had
\* brought into memory (no store call runs in this specification)
MemoryRetrieveOfCached ==
  RetrieveDone /\ retrArgs.source = "memory" /\ CachedCopies(retrArgs.id) # {}

ServedFromMemory ==
  /\ stResult.kind = "retrieved"
  /\ stResult.id = retrArgs.id
  /\ \A item \in CachedCopies(retrArgs.id) : stResult.data = item.data
  /\ opCalls = <<>>

WalkOrder ==
  IF Len(retrArgs.preferred) > 0 THEN retrArgs.preferred
  ELSE [i \in DOMAIN cfg.connectors |-> cfg.connectors[i].id]

HasRetrieve(id) ==
  \E i \in DOMAIN cfg.connectors :
    cfg.connectors[i].id = id /\ cfg.connectors[i].hasRetrieve

\* the entries of the order that name a configured connector with a
\* retrieve method
Queryable == SelectSeq(WalkOrder, HasRetrieve)

Holds(c) == MapGet(remote[c], retrArgs.id) # {}

\* the last operation is a retrieve that went to the connectors
WentToConnectors ==
  /\ stKind = "retrieve"
  /\ retrArgs.source \in {"connectors", "all"}
  /\ Len(cfg.connectors) > 0
  /\ stPc = "retrieving" \/ opCalls # <<>> \/ stResult.kind = "error"

\* C25: on a local miss with source 'all' or 'connectors', retrieve queries
\* the connectors one at a time in the given preference order (declaration
\* order when none is given) and stops at the first connector that returns a
\* hit: connectors after it are not queried, and a connector that throws or
\* returns no item is passed over for the next one and does not make the
\* retrieve fail.
C25_ConnectorsQueriedInOrderUntilFirstHit ==
  /\ stKind = "retrieve" => stResult # StError(ErrConnector)
  /\ WentToConnectors =>
       /\ Len(opCalls) <= Len(Queryable)
       /\ \A i \in DOMAIN opCalls :
            /\ opCalls[i].connector = Queryable[i]
            /\ opCalls[i].method = "retrieve"
            /\ opCalls[i].id = retrArgs.id
       /\ \A i \in DOMAIN opCalls :
            i < Len(opCalls) =>
              (~Holds(opCalls[i].connector) \/ opCalls[i].connector \in retrThrew)
       /\ stPc = "retrieving" => opCalls # <<>>
       /\ (stPc = "idle" /\ stResult.kind = "retrieved") =>
            /\ opCalls # <<>>
            /\ Holds(opCalls[Len(opCalls)].connector)
            /\ stResult.id = retrArgs.id
       /\ (stPc = "idle" /\ stResult.kind = "error") =>
            /\ stResult = StError(ErrNotFound)
            /\ Len(opCalls) = Len(Queryable)
            /\ \A i \in DOMAIN opCalls :
                 ~Holds(opCalls[i].connector) \/ opCalls[i].connector \in retrThrew

\* the first connector of the preference order threw and the second one
\* returned the item: the retrieve succeeded and the remaining connector of
\* the declaration order was not asked again
C25_Witness ==
  /\ WentToConnectors
  /\ stPc = "idle"
  /\ stResult.kind = "retrieved"
  /\ retrArgs.preferred = <<"c2", "c1">>
  /\ "c2" \in retrThrew
  /\ Len(opCalls) = 2
  /\ opCalls[1].connector = "c2" /\ opCalls[2].connector = "c1"

(***************************************************************************)
(* Properties of the in-memory stores.                                     *)
(***************************************************************************)
MemoryStores == <<vectorStore, graphStore, relationalStore>>

\* ids that have an in-memory copy
MemoryIds ==
  {item.id : item \in vectorStore \cup graphStore \cup relationalStore}

\* C26: the three in-memory stores are changed only by store and by the
\* cache fill of a retrieve that got a hit from a connector: query, sync,
\* the settling of connector calls and a retrieve served from memory leave
\* them unchanged, and no step removes an entry, so that an id retrievable
\* from memory stays retrievable in every later state.
C26_StoresOnlyGrow ==
  [][ /\ MemoryStores' # MemoryStores =>
           \/ stKind' = "store" /\ storeCalls' = storeCalls + 1
           \/ /\ stKind = "retrieve" /\ stPc = "retrieving" /\ stPc' = "idle"
              /\ stResult'.kind = "retrieved"
      /\ \A id \in MemoryIds :
           /\ id \in MemoryIds'
           /\ MemoryLookup(id, "auto")' # {} ]_vars

\* a sync call returned on an engine that holds a stored item and an item
\* brought in by a cache fill
C26_Witness ==
  /\ stKind = "sync"
  /\ stResult.kind = "synced"
  /\ MemoryLookup(lastStore.id, "auto") # {}
  /\ MemoryLookup(PriorItem.id, "auto") # {}
  /\ lastStore.id # PriorItem.id

(***************************************************************************)
(* Properties of the ids store generates.                                  *)
(***************************************************************************)
\* C27: StorageItem.id is unique for the lifetime of a storage engine: no
\* store call returns an id an earlier store call returned, so that a store
\* call never overwrites an item and the number of in-memory items grows by
\* one per store call (on an engine without connectors every in-memory item
\* comes from a store call).
C27_OneNewItemPerStoreCall ==
  Cardinality(vectorStore \cup graphStore \cup relationalStore) = storeCalls

(***************************************************************************)
(* Properties of the active provider.                                      *)
(***************************************************************************)
\* adapters that are ready, by their position in providers
ReadyProviders == {i \in DOMAIN providers : AdapterIsReady(providers[i])}

\* C28: the facade tracks at most one active provider: after any sequence
\* of initializeAI calls the active provider is the provider returned by the
\* most recent successful call (it returned true from initialize and true
\* from isReady when it was registered), and a failed initializeAI call
\* leaves the previously active provider unchanged.
C28_ActiveIsLastSuccessfulProvider ==
  /\ activeProvider \in {0} \cup DOMAIN providers
  /\ activeProvider # 0 => AdapterIsReady(providers[activeProvider])
  /\ \A i \in ReadyProviders : i <= activeProvider
  /\ facPc \in {"detect", "select", "init"} => activeProvider = activeBefore
  /\ facPc = "done" =>
       IF facResult.kind = "ok"
       THEN /\ activeProvider = facResult.provider
            /\ facResult.provider = current
            /\ AttemptOk(attempts[Len(attempts)])
            /\ attempts[Len(attempts)].provider = activeProvider
       ELSE /\ facResult.kind = "error"
            /\ activeProvider = activeBefore

\* a call failed after it had built an adapter, on a facade whose earlier
\* call had registered a provider: that provider is still the active one
C28_Witness ==
  /\ facPc = "done"
  /\ facResult.kind = "error"
  /\ attempts # <<>>
  /\ activeBefore # 0
  /\ activeProvider = activeBefore
  /\ Len(providers) > activeProvider

(***************************************************************************)
(* Properties of the payloads handed to connectors.                        *)
(***************************************************************************)
\* the payloads of the last stored item that connector calls were invoked
\* with and that have not settled yet
PayloadsInFlight == {e.payload : e \in {f \in inflight : f.payload.id = lastStore.id}}

\* C29: the data and metadata handed to connectors by store and by sync are
\* exactly the forms held in the in-memory item; with encryptionLevel full
\* no connector receives the plaintext data (and none the plaintext
\* metadata under metadata or full), and with encryptionLevel none nothing
\* is transformed.
C29_ConnectorsReceiveStoredForms ==
  \A payload \in PayloadsInFlight :
    /\ \A item \in LastStoredItem :
         payload.data = item.data /\ payload.metadata = item.metadata
    /\ cfg.encryptionLevel = "full" => payload.data # lastStore.data
    /\ cfg.encryptionLevel \in {"metadata", "full"} =>
         payload.metadata # lastStore.metadata
    /\ cfg.encryptionLevel = "none" =>
         (payload.data = lastStore.data /\ payload.metadata = lastStore.metadata)

(***************************************************************************)
(* Properties of the SmartClone object.                                    *)
(***************************************************************************)
\* retrieve calls that were issued after the store of their item had resolved
\* and have themselves resolved
RetrievesOfStoredItems ==
  { i \in DOMAIN scCalls : /\ scCalls[i].op = "retrieve"
                           /\ scCalls[i].pc = "resolved"
                           /\ scCalls[i].arg \in scCalls[i].known }

\* C30: a SmartClone object builds its storage engine at most once, whatever
\* the interleaving of initialize, store, retrieve and query calls, so a
\* retrieve issued after the store of its item resolved returns the item.
C30_OneEngineServesEveryCall ==
  /\ Len(scEngines) <= 1
  /\ \A i \in RetrievesOfStoredItems : scCalls[i].result = {scCalls[i].arg}

====
